---- MODULE Spec2Model ----
(***************************************************************************)
(* A model of pkgcheck's execution engine: the check lifecycle runner      *)
(* (pipeline.CheckRunner), the pipeline scheduler (pipeline.Pipeline) and  *)
(* the sources that feed them (sources.py).                                *)
(*                                                                         *)
(* The specifications of the module:                                       *)
(*   Spec        Pipeline.run with its three dispatch strategies, the      *)
(*               producer process, the worker pool and the task pool;      *)
(*   RunnerSpec  one CheckRunner driven through start(), run(), finish()   *)
(*               by checks that report, raise MetadataException or stay    *)
(*               quiet;                                                    *)
(*   CacheSpec   one cache file under CachedAddon.load_cache and           *)
(*               save_cache (caches.py), with failing and interrupted      *)
(*               writes;                                                   *)
(*   ReducerSpec the latest-slot reducer (sources.LatestPkgsFilter) and    *)
(*               the grouping reducer (sources._CombinedSource) over       *)
(*               bounded package streams;                                  *)
(*   EqSpec      the comparison and the hash of two CheckRunners;          *)
(*   ProfileSpec ProfileAddon.update_cache (addons.py) over scans of two   *)
(*               profiles whose files change between the scans;            *)
(*   EclassSpec  EclassAddon.update_cache (eclass.py) over scans of an     *)
(*               eclass directory whose files come, change and go;         *)
(*   HistorySpec GitAddon.update_cache (git.py) over scans of a repo whose *)
(*               upstream head advances;                                   *)
(*   OverlaySpec the lookup caches and insoluble sets ProfileAddon hands   *)
(*               to the stable and unstable ProfileData of two profiles;   *)
(*   UpdateSpec  update_cache of any one of the three cached addons, as in *)
(*               ProfileSpec, EclassSpec and HistorySpec.                  *)
(***************************************************************************)
EXTENDS Integers, Sequences, FiniteSets, Bags, TLC

(***************************************************************************)
(* Bounds of the model.                                                    *)
(***************************************************************************)
MaxIdents == 2      \* package identities (category/package) in the repo
MaxJobs == 2        \* largest worker count (options.jobs, cpu_count())
QueueCap == 2       \* messages the pipe behind restricts_q holds
MaxItems == 2       \* RunnerSpec: entities one run() streams
MaxCalls == 2       \* RunnerSpec: lifecycle calls made on the runner
MaxCount == 2       \* RunnerSpec: where the history counters stop
MaxEntries == 2     \* CacheSpec: entries of a cache payload
MaxPkgs == 3        \* ReducerSpec: packages of the input stream
MaxChecks == 3      \* EqSpec: checks in the list of a runner
MaxTime == 2        \* ProfileSpec, EclassSpec: latest modification time of a file
MaxRevs == 3        \* HistorySpec: revisions of the upstream history
MaxAdds == 3        \* OverlaySpec: elements added through the holders

None == "None"

\* multiprocessing.cpu_count() of the host, the worker count when
\* options.jobs is None; every other count is reached through options.jobs.
cpu_count == 1

(***************************************************************************)
(* Sequence helpers.                                                       *)
(***************************************************************************)
Range(s) == {s[i] : i \in DOMAIN s}

RECURSIVE Flatten(_)
Flatten(ss) == IF ss = <<>> THEN <<>> ELSE Head(ss) \o Flatten(Tail(ss))

RECURSIVE SeqSum(_)
SeqSum(s) == IF s = <<>> THEN 0 ELSE Head(s) + SeqSum(Tail(s))

Count(s, x) == Cardinality({i \in DOMAIN s : s[i] = x})

(***************************************************************************)
(* Packages, restrictions and sources (sources.py).                        *)
(*                                                                         *)
(* A package is <<identity, version>>; every identity lives in the one     *)
(* category the restriction selects.  A restriction is the scan's own      *)
(* restriction ("all"), an unversioned atom or a versioned atom.           *)
(***************************************************************************)
Pkg(i, v) == <<i, v>>
unversioned_atom(pkg) == [t |-> "cp", i |-> pkg[1], v |-> 0]
versioned_atom(pkg) == [t |-> "cpv", i |-> pkg[1], v |-> pkg[2]]
AlwaysTrue == [t |-> "all", i |-> 0, v |-> 0]
NoKey == [t |-> "none", i |-> 0, v |-> 0]       \* key = None

\* restrict.match(pkg)
Matches(restrict, pkg) ==
    CASE restrict.t = "all" -> TRUE
      [] restrict.t = "cp" -> pkg[1] = restrict.i
      [] OTHER -> pkg[1] = restrict.i /\ pkg[2] = restrict.v

\* The restrictions a source is asked for.
Restrictions ==
    {AlwaysTrue} \cup {unversioned_atom(Pkg(i, 1)) : i \in 1..MaxIdents}
                 \cup {versioned_atom(Pkg(i, v)) : i \in 1..MaxIdents, v \in 1..2}

\* RepoSource.itermatch: the matching packages of the repo, sorted.
RepoSource_itermatch(repo, restrict) ==
    SelectSeq(repo, LAMBDA pkg : Matches(restrict, pkg))

\* _FilteredSource.itermatch: the key of every run of adjacent packages
\* with the same key; keyfunc is "cp" (UnversionedSource) or "cpv"
\* (VersionedSource).
keyfunc(kind, pkg) ==
    IF kind = "cp" THEN unversioned_atom(pkg) ELSE versioned_atom(pkg)

RECURSIVE FilteredLoop(_, _, _)
FilteredLoop(kind, pkgs, key) ==
    IF pkgs = <<>>
    THEN IF key # NoKey THEN <<key>> ELSE <<>>
    ELSE LET new == keyfunc(kind, Head(pkgs)) IN
         IF key = NoKey
         THEN FilteredLoop(kind, Tail(pkgs), new)
         ELSE IF new # key
              THEN <<key>> \o FilteredLoop(kind, Tail(pkgs), new)
              ELSE FilteredLoop(kind, Tail(pkgs), key)

FilteredSource_itermatch(kind, repo, restrict) ==
    FilteredLoop(kind, RepoSource_itermatch(repo, restrict), NoKey)

\* _CombinedSource.itermatch: adjacent packages with the same key are
\* gathered into one chunk; keyfunc is the package key (PackageRepoSource)
\* or the category (CategoryRepoSource), which all packages here share.
chunkkey(scope, pkg) == IF scope = "package" THEN pkg[1] ELSE 0

\* The loop without the yield that follows it: the last chunk is lost.
RECURSIVE CombinedLoop_no_tail(_, _, _)
CombinedLoop_no_tail(scope, pkgs, chunk) ==
    IF pkgs = <<>>
    THEN <<>>
    ELSE IF chunk # <<>> /\ chunkkey(scope, Head(pkgs)) = chunkkey(scope, chunk[1])
         THEN CombinedLoop_no_tail(scope, Tail(pkgs), Append(chunk, Head(pkgs)))
         ELSE (IF chunk # <<>> THEN <<chunk>> ELSE <<>>)
              \o CombinedLoop_no_tail(scope, Tail(pkgs), <<Head(pkgs)>>)

RECURSIVE CombinedLoop(_, _, _)
CombinedLoop(scope, pkgs, chunk) ==
    IF pkgs = <<>>
    THEN IF chunk # <<>> THEN <<chunk>> ELSE <<>>
    ELSE IF chunk # <<>> /\ chunkkey(scope, Head(pkgs)) = chunkkey(scope, chunk[1])
         THEN CombinedLoop(scope, Tail(pkgs), Append(chunk, Head(pkgs)))
         ELSE (IF chunk # <<>> THEN <<chunk>> ELSE <<>>)
              \o CombinedLoop(scope, Tail(pkgs), <<Head(pkgs)>>)

CombinedSource_itermatch(scope, repo, restrict) ==
    CombinedLoop(scope, RepoSource_itermatch(repo, restrict), <<>>)

\* The entities a runner's source streams for a restriction.  Every entity
\* is a sequence of packages: one package for a version scope source, a
\* chunk for the package and category scope sources.
source_itermatch(scope, repo, restrict) ==
    IF scope = "version"
    THEN [j \in DOMAIN RepoSource_itermatch(repo, restrict) |->
             <<RepoSource_itermatch(repo, restrict)[j]>>]
    ELSE CombinedSource_itermatch(scope, repo, restrict)
(***************************************************************************)
(* Findings and the outcome of one hook call of a check.                   *)
(*                                                                         *)
(* A hook call (check.start(), check.feed(item), check.finish()) returns   *)
(* None, returns reports, raises MetadataException(pkg, attr, error) or    *)
(* raises another exception.  An error text is a sequence of characters.   *)
(***************************************************************************)
NoReports == [t |-> "none", pkg |-> 0, error |-> <<>>]
Reports == [t |-> "reports", pkg |-> 0, error |-> <<>>]
Unhandled == [t |-> "Exception", pkg |-> 0, error |-> <<>>]
MetadataException(pkg, error) ==
    [t |-> "MetadataException", pkg |-> pkg, error |-> error]

\* ': '.join(str(e.error).split('\n'))
RECURSIVE error_str(_)
error_str(error) ==
    IF error = <<>> THEN <<>>
    ELSE (IF Head(error) = "\n" THEN <<":", " ">> ELSE <<Head(error)>>)
         \o error_str(Tail(error))

\* A finding a check reports from a hook call.  check, phase and key say
\* which call yielded it; error is the raw error of the exception a
\* MetadataError was made from.
Result(check, phase, key) ==
    [kind |-> "Result", check |-> check, phase |-> phase, key |-> key,
     pkg |-> 0, msg |-> <<>>, error |-> <<>>]

\* MetadataError(e.attr, error_str, pkg=e.pkg)
MetadataError(check, phase, key, pkg, error) ==
    [kind |-> "MetadataError", check |-> check, phase |-> phase, key |-> key,
     pkg |-> pkg, msg |-> error_str(error), error |-> error]

(***************************************************************************)
(* CheckRunner (pipeline.py).  A call of start(), run() or finish() is     *)
(* the loop over its hook calls; acc gathers what the generator yields     *)
(* (out), the dedup set _metadata_errors (errs), the hook calls made       *)
(* (called) and the exception that left the generator (raised, "" when     *)
(* none did).                                                              *)
(***************************************************************************)
\* A handler that reports every metadata error it catches.
report_every_metadata_error(acc, call, phase, o) ==
    [acc EXCEPT !.errs = @ \cup {<<o.pkg, o.error>>},
                !.out = Append(@, MetadataError(call.check, phase, call.key,
                                                o.pkg, o.error))]

\* The except MetadataException clause of start() and run(): only report
\* distinct metadata errors.
report_metadata_error(acc, call, phase, o) ==
    LET exc_info == <<o.pkg, o.error>> IN
    IF exc_info \notin acc.errs
    THEN [acc EXCEPT !.errs = @ \cup {exc_info},
                     !.out = Append(@, MetadataError(call.check, phase, call.key,
                                                     o.pkg, o.error))]
    ELSE acc

\* Whether the loop of a lifecycle call catches MetadataException:
\* start() and run() do, finish() has no try block.
catches_metadata(phase) == phase \in {"start", "run"}

RECURSIVE hook_loop(_, _, _, _, _)
hook_loop(calls, outs, phase, j, acc) ==
    IF j > Len(calls) THEN acc
    ELSE LET o == outs[j]
             made == [acc EXCEPT !.called = Append(@, calls[j])]
         IN CASE o.t = "none" -> hook_loop(calls, outs, phase, j + 1, made)
              [] o.t = "reports" ->
                    hook_loop(calls, outs, phase, j + 1,
                              [made EXCEPT !.out = Append(@,
                                  Result(calls[j].check, phase, calls[j].key))])
              [] o.t = "MetadataException" /\ catches_metadata(phase) ->
                    hook_loop(calls, outs, phase, j + 1,
                              report_metadata_error(made, calls[j], phase, o))
              [] OTHER -> [made EXCEPT !.raised = o.t]

NewAcc(errs) == [out |-> <<>>, errs |-> errs, called |-> <<>>, raised |-> ""]

\* The hook calls of start() and finish(): every check, in order.
lifecycle_calls(checks) ==
    [j \in DOMAIN checks |-> [check |-> checks[j], key |-> <<>>]]

\* The hook calls of run(): for item in source: for check in self.checks.
feed_calls(checks, items) ==
    [j \in 1..(Len(items) * Len(checks)) |->
        [check |-> checks[((j - 1) % Len(checks)) + 1],
         key |-> items[((j - 1) \div Len(checks)) + 1]]]

CheckRunner_start(checks, outs, errs) ==
    hook_loop(lifecycle_calls(checks), outs, "start", 1, NewAcc(errs))

\* Mutant of drain_metadata_errors: the buffer is not cleared.
drain_metadata_errors_kept(acc, buf) ==
    IF acc.raised # "" THEN [acc |-> acc, buf |-> buf]
    ELSE [acc |-> [acc EXCEPT !.out = @ \o
                      [j \in DOMAIN buf |->
                          MetadataError("source", "run", <<>>, buf[j][1], buf[j][2])]],
          buf |-> buf]

\* The tail of run(): the source's buffered metadata_errors are yielded
\* and the buffer is cleared.  An exception in the loop leaves before it.
drain_metadata_errors(acc, buf) ==
    IF acc.raised # "" THEN [acc |-> acc, buf |-> buf]
    ELSE [acc |-> [acc EXCEPT !.out = @ \o
                      [j \in DOMAIN buf |->
                          MetadataError("source", "run", <<>>, buf[j][1], buf[j][2])]],
          buf |-> <<>>]

CheckRunner_run(checks, items, outs, errs, buf) ==
    drain_metadata_errors(
        hook_loop(feed_calls(checks, items), outs, "run", 1, NewAcc(errs)), buf)

CheckRunner_finish(checks, outs, errs) ==
    hook_loop(lifecycle_calls(checks), outs, "finish", 1, NewAcc(errs))
(***************************************************************************)
(* The scan: scopes, runners and the pipes mapping (pipeline.plug).        *)
(***************************************************************************)
Scopes == <<"eclass", "version", "package", "category", "repo">>
ScopeRank(scope) == CHOOSE k \in DOMAIN Scopes : Scopes[k] = scope
\* scope <= other
scope_le(scope, other) == ScopeRank(scope) <= ScopeRank(other)

RunnerV == [name |-> "V", scope |-> "version", checks |-> <<"v1", "v2">>]
RunnerP == [name |-> "P", scope |-> "package", checks |-> <<"p1">>]
RunnerC == [name |-> "C", scope |-> "category", checks |-> <<"c1">>]
RunnerNames == {"V", "P", "C"}
AllChecks == {"v1", "v2", "p1", "c1"}
RunnerOf(check) ==
    CHOOSE r \in {RunnerV, RunnerP, RunnerC} : check \in Range(r.checks)

\* pipes: one entry per scope, in the order the scopes were plugged.
PipesFor(runners) ==
    [j \in DOMAIN runners |-> [scope |-> runners[j].scope, pipes |-> <<runners[j]>>]]
PipeConfigs ==
    { PipesFor(<<RunnerV, RunnerP, RunnerC>>),
      PipesFor(<<RunnerV, RunnerP>>),
      PipesFor(<<RunnerC>>) }

\* The packages the scan's restriction matches, sorted: m identities, the
\* first with two versions when two is set.
Repo(m, two) ==
    Flatten([i \in 1..m |->
        IF i = 1 /\ two THEN <<Pkg(1, 1), Pkg(1, 2)>> ELSE <<Pkg(i, 1)>>])
Repos == {Repo(m, two) : m \in 0..MaxIdents, two \in BOOLEAN}

\* Where an unhandled exception is raised, after test_pipeline_exceptions:
\* "init" in Process(), "queue" in UnversionedSource(), "run" in the named
\* runner's run(), by its last check on the first entity fed.
Faults ==
    {[at |-> a, runner |-> ""] : a \in {"none", "init", "queue"}}
    \cup {[at |-> "run", runner |-> r] : r \in RunnerNames}

VARIABLES
    scan_scope,     \* Pipeline.scan_scope
    options_jobs,   \* options.jobs, 0 for None
    jobs,           \* Pipeline.jobs
    pipes,          \* Pipeline.pipes
    repo,           \* the packages Pipeline.restrict matches
    noisy,          \* the runners whose checks report on every hook call (all, in a scan with a fault)
    fault,          \* where an unhandled exception is raised
    pc,             \* where Pipeline.run is
    results_q,      \* every value put on the results channel, in order
    restricts_q,    \* the queue between the producer and the workers
    producer,       \* the process running _insert_pkgs
    workers,        \* the pool processes running _run_checks
    futures,        \* the tasks submitted to the executor
    yielded,        \* every finding a runner's generator has yielded
    hooks,          \* per check: the hook calls made on it so far
    work,           \* per identity: who took it from the queue and ran it
    ran             \* every run(restrict) call made on a runner, and where

pipeVars == <<scan_scope, options_jobs, jobs, pipes, repo, noisy, fault, pc,
              results_q, restricts_q, producer, workers, futures, yielded,
              hooks, work, ran>>
envVars == <<scan_scope, options_jobs, jobs, pipes, repo, noisy, fault>>

\* The errors a check's hook can raise as MetadataException: one package,
\* two error texts that differ and read the same once formatted.
ErrorA == <<"a", "\n", "b">>
ErrorB == <<"a", ":", " ", "b">>
Keys == {<<1, ErrorA>>, <<1, ErrorB>>}              \* (e.pkg, e.error)

VARIABLES
    r_calls,        \* RunnerSpec: the lifecycle calls made so far
    r_errs,         \* CheckRunner._metadata_errors
    r_buf,          \* source.metadata_errors
    r_found,        \* per key: the MetadataError findings yielded so far, by origin
    r_raised,       \* per key: the MetadataExceptions raised in start() and feeds
    r_last          \* the last lifecycle call: its hook calls, what left it

runnerVars == <<r_calls, r_errs, r_buf, r_found, r_raised, r_last>>

VARIABLES
    c_dir,          \* CacheSpec: the directory of the cache file exists
    c_file,         \* the file at the cache path
    c_tmp,          \* the file AtomicWriteFile writes before renaming it
    c_save,         \* the save_cache call in progress
    c_last          \* the last load_cache or save_cache call that ended

cacheVars == <<c_dir, c_file, c_tmp, c_save, c_last>>

VARIABLES
    g_src,          \* ReducerSpec: the stream the reducer consumes
    g_mode,         \* which reducer runs over it
    g_it,           \* the LatestPkgsFilter object
    g_out,          \* what the reducer has yielded so far
    g_done          \* the reducer is exhausted

reducerVars == <<g_src, g_mode, g_it, g_out, g_done>>

VARIABLES
    q_self,         \* EqSpec: a CheckRunner
    q_other,        \* the object it is compared with
    q_res           \* what ==, != and hash() gave

eqVars == <<q_self, q_other, q_res>>

VARIABLES
    p_fs,           \* ProfileSpec: the directories of the profile nodes
    p_disk,         \* the profiles cache file of the repo
    p_broken,       \* the profiles whose data raises ProfileError
    p_scan          \* the last update_cache call

profileVars == <<p_fs, p_disk, p_broken, p_scan>>

VARIABLES
    e_fs,           \* EclassSpec: the files of the repo's eclass directory
    e_disk,         \* the eclass cache file of the repo
    e_scan          \* the last update_cache call

eclassVars == <<e_fs, e_disk, e_scan>>

VARIABLES
    h_head,         \* HistorySpec: the revision origin/HEAD names (0: no such ref)
    h_quiet,        \* the revisions that change no package
    h_file,         \* the git cache file of the repo
    h_scan          \* the last update_cache call

historyVars == <<h_head, h_quiet, h_file, h_scan>>

VARIABLES
    o_set,          \* OverlaySpec: the elements every set object holds itself
    o_added,        \* the elements added through every holder so far
    o_last,         \* the last add
    o_adds          \* the adds made so far

overlayVars == <<o_set, o_added, o_last, o_adds>>

VARIABLES
    u_cache         \* UpdateSpec: the cache type whose addon is run

updateVars == <<u_cache>>

\* SourceSpec: one itermatch() call of one source.
VARIABLES
    s_call      \* the source's kind and collection, the restriction, what it yielded

sourceVars == <<s_call>>

VARIABLES
    rm_tree,
    rm_opts,
    rm_was,
    rm_done

removeVars == <<rm_tree, rm_opts, rm_was, rm_done>>

VARIABLES
    k_scan,
    k_pc,
    k_main,
    k_workers,
    k_todo,
    k_tasks,
    k_q

copyVars == <<k_scan, k_pc, k_main, k_workers, k_todo, k_tasks, k_q>>

vars == <<pipeVars, runnerVars, cacheVars, reducerVars, eqVars, profileVars, eclassVars, historyVars, overlayVars, updateVars, sourceVars, removeVars, copyVars>>
\* What the actions of one specification leave alone.
offPipe == <<runnerVars, cacheVars, reducerVars, eqVars, profileVars, eclassVars, historyVars, overlayVars, updateVars, sourceVars, removeVars, copyVars>>
offRunner == <<pipeVars, cacheVars, reducerVars, eqVars, profileVars, eclassVars, historyVars, overlayVars, updateVars, sourceVars, removeVars, copyVars>>
offCache == <<pipeVars, runnerVars, reducerVars, eqVars, profileVars, eclassVars, historyVars, overlayVars, updateVars, sourceVars, removeVars, copyVars>>
offReducer == <<pipeVars, runnerVars, cacheVars, eqVars, profileVars, eclassVars, historyVars, overlayVars, updateVars, sourceVars, removeVars, copyVars>>
offEq == <<pipeVars, runnerVars, cacheVars, reducerVars, profileVars, eclassVars, historyVars, overlayVars, updateVars, sourceVars, removeVars, copyVars>>
offProfile == <<pipeVars, runnerVars, cacheVars, reducerVars, eqVars, eclassVars, historyVars, overlayVars, updateVars, sourceVars, removeVars, copyVars>>
offEclass == <<pipeVars, runnerVars, cacheVars, reducerVars, eqVars, profileVars, historyVars, overlayVars, updateVars, sourceVars, removeVars, copyVars>>
offHistory == <<pipeVars, runnerVars, cacheVars, reducerVars, eqVars, profileVars, eclassVars, overlayVars, updateVars, sourceVars, removeVars, copyVars>>
offOverlay == <<pipeVars, runnerVars, cacheVars, reducerVars, eqVars, profileVars, eclassVars, historyVars, updateVars, sourceVars, removeVars, copyVars>>
offUpdate == <<pipeVars, runnerVars, cacheVars, reducerVars, eqVars, profileVars, eclassVars, historyVars, overlayVars, sourceVars, removeVars, copyVars>>
offSource == <<pipeVars, runnerVars, cacheVars, reducerVars, eqVars, profileVars, eclassVars, historyVars, overlayVars, updateVars, removeVars, copyVars>>
offRemove == <<pipeVars, runnerVars, cacheVars, reducerVars, eqVars, profileVars, eclassVars, historyVars, overlayVars, updateVars, sourceVars, copyVars>>
offCopy == <<pipeVars, runnerVars, cacheVars, reducerVars, eqVars, profileVars, eclassVars, historyVars, overlayVars, updateVars, sourceVars, removeVars>>

\* The values on the two channels.
Batch(results) == [t |-> "batch", results |-> results]
EndMarker == [t |-> "None", results |-> <<>>]           \* results_q.put(None)
Sentinel == [t |-> "None", i |-> 0, v |-> 0]            \* queue.put(None)

\* Mutant of all_pipes: the runners of the last scope are left out.
all_pipes_but_last ==
    Flatten([j \in DOMAIN pipes |-> IF j < Len(pipes) \/ j = 1 THEN pipes[j].pipes ELSE <<>>])

\* chain.from_iterable(self.pipes.values())
all_pipes == Flatten([j \in DOMAIN pipes |-> pipes[j].pipes])

\* What a check does on a hook call in this scan.
Behaviour(check, phase) ==
    IF /\ fault.at = "run" /\ phase = "run"
       /\ RunnerOf(check).name = fault.runner
       /\ check = RunnerOf(check).checks[Len(RunnerOf(check).checks)]
    THEN Unhandled
    ELSE IF RunnerOf(check).name \in noisy THEN Reports ELSE NoReports

Outcomes(calls, phase) ==
    [j \in DOMAIN calls |-> Behaviour(calls[j].check, phase)]

\* pipe.start(), pipe.run(restrict), pipe.finish() on one runner.  No
\* check of this scan raises MetadataException and no source buffers
\* errors, so the dedup set and the buffer stay empty.
call_runner(runner, phase, restrict) ==
    CASE phase = "start" ->
            CheckRunner_start(runner.checks,
                Outcomes(lifecycle_calls(runner.checks), "start"), {})
      [] phase = "run" ->
            LET items == source_itermatch(runner.scope, repo, restrict) IN
            CheckRunner_run(runner.checks, items,
                Outcomes(feed_calls(runner.checks, items), "run"), {}, <<>>).acc
      [] OTHER ->
            CheckRunner_finish(runner.checks,
                Outcomes(lifecycle_calls(runner.checks), "finish"), {})

\* for pipe in pipes: results.extend(pipe.<phase>(...)); an exception
\* leaves the loop.
RECURSIVE call_pipes(_, _, _, _, _)
call_pipes(ps, phase, restrict, j, acc) ==
    IF j > Len(ps) \/ acc.raised # "" THEN acc
    ELSE LET r == call_runner(ps[j], phase, restrict) IN
         call_pipes(ps, phase, restrict, j + 1,
                    [out |-> acc.out \o r.out, called |-> acc.called \o r.called,
                     raised |-> r.raised, runs |-> j])

run_pipes(ps, phase, restrict) ==
    call_pipes(ps, phase, restrict, 1,
               [out |-> <<>>, called |-> <<>>, raised |-> "", runs |-> 0])

\* The hook calls a process has just made, noted against the scan so far.
NoteCalls(h, phase, called) ==
    [c \in DOMAIN h |->
        LET n == Cardinality({j \in DOMAIN called : called[j].check = c}) IN
        IF n = 0 THEN h[c]
        ELSE CASE phase = "start" ->
                    [h[c] EXCEPT !.start = @ + n, !.late = @ \/ h[c].finish > 0]
               [] phase = "run" ->
                    [h[c] EXCEPT !.fed = TRUE,
                                 !.early = @ \/ h[c].start = 0,
                                 !.late = @ \/ h[c].finish > 0]
               [] OTHER ->
                    [h[c] EXCEPT !.finish = @ + n, !.early = @ \/ h[c].start = 0]]

\* if results: results_q.put(results)
put_results(q, results) ==
    IF results # <<>> THEN Append(q, Batch(results)) ELSE q

\* The runners of ps on which the loop "for pipe in pipes:
\* results.extend(pipe.run(restrict))" has called run(restrict): all of
\* them, or those up to the first that raised.
invoked(ps, r) == SubSeq(ps, 1, r.runs)

\* The run() calls noted: in the calling process in order, in the pool
\* workers and the executor tasks as a bag of <<runner, restriction>>.
NoRuns == [main |-> <<>>, pool |-> EmptyBag, task |-> EmptyBag]
NoteRuns(n, ps, restrict) ==
    n (+) SetToBag({<<ps[j].name, restrict>> : j \in DOMAIN ps})
(***************************************************************************)
(* Pipeline.run (pipeline.py).                                             *)
(***************************************************************************)
(***************************************************************************)
(* Cache store (caches.py).  A cache value is a record: t says what it is  *)
(* ("cache" for an object carrying the version of its CacheData, "dict"    *)
(* and "None" for the plain values callers pass as fallback), version is   *)
(* the stored version, data the entries.                                   *)
(***************************************************************************)
CacheData(type, file, version) == [type |-> type, file |-> file, version |-> version]
\* CachedAddon.caches: the registered cache types.
ProfileCache == CacheData("profiles", "profiles.pickle", 2)
GitCacheData == CacheData("git", "git.pickle", 4)
EclassCache == CacheData("eclass", "eclass.pickle", 1)
caches == {ProfileCache, GitCacheData, EclassCache}

NoVersion == 0 - 1
PyNone == [t |-> "None", version |-> NoVersion, data |-> <<>>]
EmptyDict == [t |-> "dict", version |-> NoVersion, data |-> <<>>]
Fallbacks == {PyNone, EmptyDict}
\* DictCache(data, cache), GitCache(data, cache, ...): the payload proxies
\* cache.version.
DictCache(data, version) == [t |-> "cache", version |-> version, data |-> data]
Datas == {[i \in 1..n |-> i] : n \in 0..MaxEntries}
\* Payloads made under the registered versions and under their predecessors.
Versions == UNION {{c.version, c.version - 1} : c \in caches}
Payloads == {DictCache(d, v) : d \in Datas, v \in Versions}

\* pickle: a value is written as a stream of opcodes, PROTO first and STOP
\* last.
Tok(op, arg) == [op |-> op, arg |-> arg]
pickle_dump(value) ==
    <<Tok("PROTO", 5)>>
    \o (CASE value.t = "cache" -> <<Tok("OBJ", value.version)>>
          [] value.t = "dict" -> <<Tok("DICT", 0)>>
          [] OTHER -> <<Tok("NONE", 0)>>)
    \o [i \in 1..Len(value.data) |-> Tok("ITEM", value.data[i])]
    \o <<Tok("STOP", 0)>>

Unpickled(exc, value) == [exc |-> exc, value |-> value]
\* pickle.load: the value of a whole stream, or the error the stream
\* raises: none left (EOFError), not a pickle (UnpicklingError), a length
\* prefix no memory can hold (MemoryError).
pickle_load(bytes) ==
    LET n == Len(bytes)
        body == SubSeq(bytes, 3, n - 1)
        data == [i \in 1..Len(body) |-> body[i].arg]
    IN  IF n = 0 THEN Unpickled("EOFError", PyNone)
        ELSE IF bytes[1].op # "PROTO" THEN Unpickled("UnpicklingError", PyNone)
        ELSE IF \E i \in 1..n : bytes[i].op = "BIG" THEN Unpickled("MemoryError", PyNone)
        ELSE IF n < 3 \/ bytes[n].op # "STOP" THEN Unpickled("EOFError", PyNone)
        ELSE IF \E i \in 1..Len(body) : body[i].op # "ITEM"
             THEN Unpickled("UnpicklingError", PyNone)
        ELSE CASE bytes[2].op = "OBJ" -> Unpickled("", DictCache(data, bytes[2].arg))
               [] bytes[2].op = "DICT" -> Unpickled("", [EmptyDict EXCEPT !.data = data])
               [] bytes[2].op = "NONE" /\ n = 3 -> Unpickled("", PyNone)
               [] OTHER -> Unpickled("UnpicklingError", PyNone)

\* snakeoil.compatibility.IGNORED_EXCEPTIONS, as far as a load can raise them.
IGNORED_EXCEPTIONS == {"RuntimeError", "MemoryError"}

\* A path of the filesystem: whether a file is there, and its content.
File(bytes) == [exists |-> TRUE, bytes |-> bytes]
NoFile == [exists |-> FALSE, bytes |-> <<>>]

\* cache.version != self.cache.version
outdated_inverted(cache, addon) == cache.version = addon.version
outdated_never(cache, addon) == FALSE
outdated(cache, addon) == cache.version # addon.version

\* CachedAddon.load_cache(path, fallback) on the file at path: what it
\* returns or raises, and the file it leaves.
Loaded(ret, raised, file) == [ret |-> ret, raised |-> raised, file |-> file]
load_cache(addon, file, fallback) ==
    IF ~file.exists THEN Loaded(fallback, "", file)         \* FileNotFoundError
    ELSE LET r == pickle_load(file.bytes) IN
         IF r.exc \in IGNORED_EXCEPTIONS THEN Loaded(PyNone, r.exc, file)
         ELSE IF r.exc # "" THEN Loaded(fallback, "", NoFile)
         ELSE IF r.value.t # "cache" THEN Loaded(fallback, "", NoFile)  \* AttributeError
         ELSE IF outdated(r.value, addon) THEN Loaded(fallback, "", NoFile)
         ELSE Loaded(r.value, "", file)

\* except IOError: raise UserException(msg), msg naming the cache type and
\* the path.
UserException(addon) == [t |-> "UserException", type |-> addon.type, path |-> addon.file]
NoError == [t |-> "", type |-> "", path |-> ""]
io_error_swallowed(addon) == NoError
io_error(addon) == UserException(addon)

\* Files found at the cache path when the program starts: none, caches
\* written earlier, and files that are not caches.
Foreign ==
    {<<>>, <<Tok("STOP", 0)>>, <<Tok("PROTO", 5), Tok("BIG", 0)>>,
     pickle_dump(EmptyDict), pickle_dump(PyNone)}
Raised(exc) == [t |-> exc, type |-> "", path |-> ""]
NoCall == [op |-> "", addon |-> "", arg |-> PyNone, ret |-> PyNone, raised |-> NoError,
           before |-> NoFile, fresh |-> PyNone, fault |-> ""]
NoSave == [pc |-> "idle", addon |-> ProfileCache, payload |-> PyNone, old |-> NoFile]

CacheIdle ==
    /\ c_dir = FALSE /\ c_file = NoFile /\ c_tmp = NoFile
    /\ c_save = NoSave /\ c_last = NoCall

(***************************************************************************)
(* The latest-slot reducer (sources.LatestPkgsFilter).  Here a package is  *)
(* <<identity, n, slot, live, filtered>>: n tells the packages of the      *)
(* stream apart, slot is the slot name, live says whether it is a VCS      *)
(* package, filtered whether it is wrapped as FilteredPkg.                 *)
(***************************************************************************)
SlotPkg(i, n, slot, live) == <<i, n, slot, live, FALSE>>
\* Mutant of FilteredPkg: the package is passed on unwrapped.
FilteredPkg_unwrapped(pkg) == pkg
FilteredPkg(pkg) == [pkg EXCEPT ![5] = TRUE]
NoPkg == <<0, 0, "", FALSE, FALSE>>             \* _pkg_marker = None

\* The key of selected_pkgs a package is stored under.
slot_key(pkg) == IF pkg[4] THEN "vcs-" \o pkg[3] ELSE pkg[3]

\* selected_pkgs.setdefault(key, pkg): the first package of a key stays.
dict_setdefault(d, k, v) ==
    IF \E j \in DOMAIN d : d[j].k = k THEN d ELSE Append(d, [k |-> k, v |-> v])
\* selected_pkgs[key] = pkg: a dict keeps the order in which its keys were
\* first set.
dict_set(d, k, v) ==
    IF \E j \in DOMAIN d : d[j].k = k
    THEN [j \in DOMAIN d |-> IF d[j].k = k THEN [k |-> k, v |-> v] ELSE d[j]]
    ELSE Append(d, [k |-> k, v |-> v])
dict_values(d) == [j \in DOMAIN d |-> d[j].v]

\* LatestPkgsFilter.__init__
LatestPkgsFilter(partial_filtered) ==
    [partial |-> partial_filtered, pos |-> 0, cache |-> <<>>, marker |-> NoPkg]

\* The while loop of __next__: pkg is the package at hand, pos the
\* packages taken from the source so far.
RECURSIVE select_loop(_, _, _, _, _)
select_loop(src, pos, pkg, selected, pkgs) ==
    LET sel == dict_set(selected, slot_key(pkg), pkg)
        seen == Append(pkgs, pkg)
    IN  IF pos = Len(src)                        \* StopIteration
        THEN [selected |-> sel, pkgs |-> seen, pos |-> pos, marker |-> NoPkg]
        ELSE IF src[pos + 1][1] = pkg[1]
             THEN select_loop(src, pos + 1, src[pos + 1], sel, seen)
             ELSE [selected |-> sel, pkgs |-> seen, pos |-> pos + 1,
                   marker |-> src[pos + 1]]

\* LatestPkgsFilter.__next__ over the source src: the object afterwards
\* and the package returned, or stop when StopIteration leaves it.
refill(it, src) ==
    LET first == IF it.marker = NoPkg THEN src[it.pos + 1] ELSE it.marker
        pos == IF it.marker = NoPkg THEN it.pos + 1 ELSE it.pos
        r == select_loop(src, pos, first, <<>>, <<>>)
        selected_pkgs == Range(dict_values(r.selected))
    IN  [it EXCEPT !.pos = r.pos, !.marker = r.marker,
                   !.cache = IF it.partial
                             THEN [j \in DOMAIN r.pkgs |->
                                     IF r.pkgs[j] \notin selected_pkgs
                                     THEN FilteredPkg(r.pkgs[j]) ELSE r.pkgs[j]]
                             ELSE dict_values(r.selected)]

LatestPkgsFilter_next(it, src) ==
    IF it.cache = <<>> /\ it.marker = NoPkg /\ it.pos = Len(src)
    THEN [stop |-> TRUE, it |-> it, pkg |-> NoPkg]
    ELSE LET full == IF it.cache = <<>> THEN refill(it, src) ELSE it
         IN [stop |-> FALSE, it |-> [full EXCEPT !.cache = Tail(@)],
             pkg |-> Head(full.cache)]

ReducerIdle ==
    /\ g_src = <<>> /\ g_mode = "" /\ g_it = LatestPkgsFilter(FALSE)
    /\ g_out = <<>> /\ g_done = FALSE

(***************************************************************************)
(* CheckRunner.__eq__, __ne__ and __hash__ (pipeline.py).  A runner is its *)
(* class, its source and the list of its checks.                           *)
(***************************************************************************)
CheckRunner(source, checks) == [cls |-> "CheckRunner", source |-> source, checks |-> checks]
\* frozenset(checks)
frozenset(checks) == Range(checks)
\* hash(check): checks hash by identity.
HashBits == 8
check_hash(check) == CASE check = "k1" -> 11 [] check = "k2" -> 23 [] OTHER -> 47
\* hash(frozenset): the hashes of the members, combined in an order that
\* does not matter.
RECURSIVE frozenset_hash(_)
frozenset_hash(S) ==
    IF S = {} THEN 5
    ELSE LET x == CHOOSE x \in S : TRUE
         IN (frozenset_hash(S \ {x}) + 3 * check_hash(x)) % (2 ^ HashBits)

\* Comparing the lists of checks instead of the sets.
CheckRunner_eq_ordered(self, other) ==
    self.cls = other.cls /\ self.checks = other.checks
CheckRunner_eq(self, other) ==
    self.cls = other.cls /\ frozenset(self.checks) = frozenset(other.checks)
CheckRunner_ne(self, other) == ~CheckRunner_eq(self, other)
CheckRunner_hash(self) == frozenset_hash(frozenset(self.checks))

NoResult == [done |-> FALSE, eq |-> FALSE, ne |-> FALSE, hself |-> 0, hother |-> 0]
EqIdle ==
    /\ q_self = CheckRunner("s1", <<>>) /\ q_other = CheckRunner("s1", <<>>)
    /\ q_res = NoResult

(***************************************************************************)
(* The profile cache (addons.ProfileAddon).  Two profiles inherit from one *)
(* shared node: the stack of a profile is the shared node and its own.     *)
(* The directory of a node is the latest modification time of its regular  *)
(* files and whether it holds a second file; what a profile's files say    *)
(* (masks, forced and masked USE, ...) is told apart by the same record.   *)
(***************************************************************************)
Profiles == {"p1", "p2"}
SharedNode == "base"
Nodes == {SharedNode} \cup Profiles
stack(profile) == <<SharedNode, profile>>
Dir(mtime, second) == [mtime |-> mtime, second |-> second]
node_files(fs, node) ==
    {<<node, "make.defaults">>} \cup (IF fs[node].second THEN {<<node, "package.mask">>} ELSE {})

Max(a, b) == IF a > b THEN a ELSE b
\* ProfileAddon._profile_files: the most recent mtime and the file set of
\* the nodes of the profile's stack.
Fingerprint(mtime, files) == [mtime |-> mtime, files |-> files]
profile_files(fs, profile) ==
    Fingerprint(Max(fs[stack(profile)[1]].mtime, fs[stack(profile)[2]].mtime),
                node_files(fs, stack(profile)[1]) \cup node_files(fs, stack(profile)[2]))
NoFingerprint == Fingerprint(0, {})             \* profile_data.get(profile, None)
\* ProfileAddon.profile_data
profile_data(enabled, fs) ==
    [profile \in Profiles |-> IF enabled THEN profile_files(fs, profile) ELSE NoFingerprint]

\* The masks, flags and USE data computed from the files of the stack.
derive(fs, profile) == <<fs[stack(profile)[1]], fs[stack(profile)[2]]>>

\* An entry of the cache: cached_profiles[profile.base][profile.path].
Entry(files, data) == [present |-> TRUE, files |-> files, data |-> data]
NoEntry == [present |-> FALSE, files |-> NoFingerprint, data |-> <<>>]
NoEntries == [profile \in Profiles |-> NoEntry]
\* The cache file: absent, or the DictCache saved under a version.
ProfilesFile(version, entries) == [exists |-> TRUE, version |-> version, entries |-> entries]
NoProfilesFile == [exists |-> FALSE, version |-> NoVersion, entries |-> NoEntries]

\* files != cached_profile['files'], on the mtime alone.
entry_outdated_mtime(entry, files) == entry.files.mtime # files.mtime
entry_outdated(entry, files) == entry.files # files

\* The try block of update_cache for one profile: what becomes of it
\* (taken from the cache, computed, or skipped on ProfileError).
profile_outcome(cached, files, broken) ==
    IF cached.present /\ ~entry_outdated(cached, files) THEN "cached"
    ELSE IF broken THEN "failed"
    ELSE "computed"

\* ProfileAddon.update_cache(force) over the repo: the entries it ends
\* with, the data it used for every profile, whether it saved the cache
\* and the cache file afterwards.  fails says whether computing the data
\* of a profile raises an exception other than ProfileError, which
\* update_cache does not catch.
update_cache(force, enabled, fs, disk, broken, fails) ==
    LET load == enabled /\ ~force
        stale == disk.exists /\ outdated(disk, ProfileCache)
        cached_profiles == IF load /\ disk.exists /\ ~stale THEN disk.entries ELSE NoEntries
        files == profile_data(enabled, fs)
        outcome == [profile \in Profiles |->
                      profile_outcome(cached_profiles[profile], files[profile],
                                      profile \in broken)]
        entries == [profile \in Profiles |->
                      IF outcome[profile] = "computed" /\ enabled
                      THEN Entry(files[profile], derive(fs, profile))
                      ELSE cached_profiles[profile]]
        update == enabled /\ \E profile \in Profiles : outcome[profile] = "computed"
        raised == fails /\ \E profile \in Profiles : outcome[profile] = "computed"
        after_load == IF load /\ stale THEN NoProfilesFile ELSE disk
    IN  [before |-> cached_profiles, files |-> files, outcome |-> outcome,
         data |-> [profile \in Profiles |->
                     CASE outcome[profile] = "cached" -> cached_profiles[profile].data
                       [] outcome[profile] = "computed" /\ ~raised -> derive(fs, profile)
                       [] OTHER -> <<>>],
         saved |-> update /\ ~raised,
         raised |-> raised,
         disk |-> IF update /\ ~raised THEN ProfilesFile(ProfileCache.version, entries)
                  ELSE after_load]

NoScan ==
    [any |-> FALSE, force |-> FALSE, enabled |-> FALSE, before |-> NoEntries,
     files |-> [profile \in Profiles |-> NoFingerprint],
     outcome |-> [profile \in Profiles |-> ""],
     data |-> [profile \in Profiles |-> <<>>], saved |-> FALSE,
     raised |-> FALSE, old |-> NoProfilesFile,
     again |-> FALSE, seen |-> [profile \in Profiles |-> NoFingerprint]]

ProfileIdle ==
    /\ p_fs = [node \in Nodes |-> Dir(1, FALSE)]
    /\ p_disk = NoProfilesFile /\ p_broken = {} /\ p_scan = NoScan

(***************************************************************************)
(* The eclass cache (eclass.EclassAddon).  The eclass directory of the     *)
(* repo holds up to two files; a file parses, fails to parse               *)
(* (EclassDocParsingError, IOError) or makes the parser raise another      *)
(* exception.  A cached entry is the EclassDoc of a file, told apart by    *)
(* the modification time it was parsed at.                                 *)
(***************************************************************************)
Eclasses == <<"a", "b">>                \* sorted(... os.listdir(eclass_dir) ...)
EclassNames == Range(Eclasses)
EclassFile(mtime, kind) == [exists |-> TRUE, mtime |-> mtime, kind |-> kind]
NoEclassFile == [exists |-> FALSE, mtime |-> 0, kind |-> ""]
\* What parsing a file of the name comes to: the first file may make the
\* parser raise an exception update_cache does not catch, the second one
\* EclassDocParsingError or IOError.
ParseKinds(name) == IF name = Eclasses[1] THEN {"ok", "fatal"} ELSE {"ok", "unparsable"}
\* EclassDoc(path, sourced=True)
EclassDoc(mtime) == [present |-> TRUE, mtime |-> mtime]
NoDoc == [present |-> FALSE, mtime |-> 0]
NoDocs == [name \in EclassNames |-> NoDoc]
EclassCacheFile(version, entries) == [exists |-> TRUE, version |-> version, entries |-> entries]
NoEclassCacheFile == [exists |-> FALSE, version |-> NoVersion, entries |-> NoDocs]

\* os.path.getmtime(path) != eclasses[name].mtime, as "is newer than".
eclass_outdated_newer(doc, mtime) == ~doc.present \/ doc.mtime < mtime
\* The first try block of the update loop: KeyError for a name without an
\* entry, or a modification time other than the cached one.
eclass_outdated(doc, mtime) == ~doc.present \/ doc.mtime # mtime

\* EclassAddon.update_cache(force) for the repo.
eclass_update_cache(force, enabled, fs, disk) ==
    LET load == ~force
        stale == disk.exists /\ outdated(disk, EclassCache)
        loaded == IF load /\ disk.exists /\ ~stale THEN disk.entries ELSE NoDocs
        \* check for eclass removals
        kept == [name \in EclassNames |->
                   IF loaded[name].present /\ ~fs[name].exists THEN NoDoc ELSE loaded[name]]
        removed == \E name \in EclassNames : kept[name] # loaded[name]
        \* check for eclass additions and updates
        wanted(i) == fs[Eclasses[i]].exists
                     /\ eclass_outdated(kept[Eclasses[i]], fs[Eclasses[i]].mtime)
        fatal == {i \in DOMAIN Eclasses : wanted(i) /\ fs[Eclasses[i]].kind = "fatal"}
        reached(i) == \A j \in fatal : i <= j
        parsed == {Eclasses[i] : i \in {j \in DOMAIN Eclasses : wanted(j) /\ reached(j)}}
        eclasses == [name \in EclassNames |->
                       IF name \in parsed /\ fs[name].kind = "ok"
                       THEN EclassDoc(fs[name].mtime) ELSE kept[name]]
        cache_eclasses == removed \/ \E name \in parsed : fs[name].kind = "ok"
        after_load == IF load /\ stale THEN NoEclassCacheFile ELSE disk
    IN  IF ~enabled
        THEN [before |-> NoDocs, parsed |-> {}, after |-> NoDocs, saved |-> FALSE,
              raised |-> FALSE, disk |-> disk]
        ELSE IF fatal # {}
        THEN [before |-> loaded, parsed |-> parsed, after |-> eclasses, saved |-> FALSE,
              raised |-> TRUE, disk |-> after_load]
        ELSE [before |-> loaded, parsed |-> parsed, after |-> eclasses,
              saved |-> cache_eclasses, raised |-> FALSE,
              disk |-> IF cache_eclasses
                       THEN EclassCacheFile(EclassCache.version, eclasses)
                       ELSE after_load]

NoEclassScan ==
    [any |-> FALSE, force |-> FALSE, enabled |-> FALSE,
     fs |-> [name \in EclassNames |-> NoEclassFile], old |-> NoEclassCacheFile,
     before |-> NoDocs, parsed |-> {}, after |-> NoDocs, saved |-> FALSE,
     raised |-> FALSE]

EclassIdle ==
    /\ e_fs = [name \in EclassNames |-> NoEclassFile]
    /\ e_disk = NoEclassCacheFile /\ e_scan = NoEclassScan

(***************************************************************************)
(* The history cache (git.GitAddon).  The upstream history is the line of  *)
(* revisions 1, 2, ...; origin/HEAD names one of them.  A revision either  *)
(* changes one package of its own or none.  The payload GitCache(data,     *)
(* cache, commit) is pickled with its commit in front of the recorded      *)
(* package changes, each told by the revision that made it.                *)
(***************************************************************************)
GitCache(data, commit) == DictCache(<<commit>> \o data, GitCacheData.version)
git_commit(cache) == cache.data[1]                          \* git_cache.commit
git_data(cache) == SubSeq(cache.data, 2, Len(cache.data))   \* git_cache.data
\* bool(git_cache): a GitCache is a dict and false when it holds nothing.
git_truth(cache) == git_data(cache) # <<>>

\* The revisions `git log <from>..origin/HEAD` walks, newest first; from 0
\* it is `git log origin/HEAD`.
RECURSIVE commit_range(_, _)
commit_range(from, head) ==
    IF head <= from THEN <<>> ELSE <<head>> \o commit_range(from, head - 1)

\* The (atom, status) of the package change a revision makes: every
\* other revision changes the same version of the one package again.
change_key(rev) == rev % 2

\* for pkg in GitRepoPkgs(path, commit_range): a change whose key was not
\* seen in this walk is appended to data.
RECURSIVE history_loop(_, _, _, _)
history_loop(walk, quiet, data, seen) ==
    IF walk = <<>> THEN data
    ELSE IF Head(walk) \in quiet \/ change_key(Head(walk)) \in seen
         THEN history_loop(Tail(walk), quiet, data, seen)
         ELSE history_loop(Tail(walk), quiet, Append(data, Head(walk)),
                           seen \cup {change_key(Head(walk))})

\* GitAddon.pkg_history(path, commit_range, data): the package changes of
\* the walked revisions, the newest per key, appended to data.
pkg_history(walk, quiet, data) == history_loop(walk, quiet, data, {})

NoWalk == [kind |-> "none", from |-> 0, revs |-> <<>>]
Walk(from, head) ==
    [kind |-> IF from = 0 THEN "full" ELSE "incremental", from |-> from,
     revs |-> commit_range(from, head)]

\* An update_cache that stores the new head before it walks the history.
git_update_cache_eager(force, enabled, head, quiet, file, git_log_fails) ==
    LET l == load_cache(GitCacheData, file, PyNone)
        data == IF l.ret = PyNone THEN <<>> ELSE git_data(l.ret)
    IN  [loaded |-> l.ret, walk |-> NoWalk, cache |-> GitCache(data, head),
         saved |-> TRUE, raised |-> IF git_log_fails THEN UserException(GitCacheData) ELSE NoError,
         file |-> File(pickle_dump(GitCache(data, head)))]
\* GitAddon.update_cache(force) for the repo; git_log_fails says whether
\* `git log` of the walk ends in GitError.
git_update_cache(force, enabled, head, quiet, file, git_log_fails) ==
    LET l == IF force THEN Loaded(PyNone, "", file)
             ELSE load_cache(GitCacheData, file, PyNone)
        git_cache == l.ret
        from == IF git_cache = PyNone THEN 0 ELSE git_commit(git_cache)
        data == IF git_cache = PyNone THEN <<>> ELSE git_data(git_cache)
        walk == Walk(from, head)
        updated == GitCache(pkg_history(walk.revs, quiet, data), head)
        nothing == [loaded |-> PyNone, walk |-> NoWalk, cache |-> PyNone,
                    saved |-> FALSE, raised |-> NoError, file |-> file]
    IN  IF ~enabled \/ head = 0 THEN nothing       \* GitError of rev-parse: continue
        ELSE IF l.raised # ""
        THEN [nothing EXCEPT !.raised = Raised(l.raised), !.file = l.file]
        ELSE IF git_cache = PyNone \/ head # git_commit(git_cache)
        THEN IF git_log_fails
             THEN [loaded |-> git_cache, walk |-> walk, cache |-> PyNone, saved |-> FALSE,
                   raised |-> UserException(GitCacheData), file |-> l.file]
             ELSE [loaded |-> git_cache, walk |-> walk, cache |-> updated,
                   saved |-> git_truth(updated), raised |-> NoError,
                   file |-> IF git_truth(updated) THEN File(pickle_dump(updated))
                            ELSE l.file]
        ELSE [loaded |-> git_cache, walk |-> NoWalk, cache |-> git_cache, saved |-> FALSE,
              raised |-> NoError, file |-> l.file]

NoHistoryScan ==
    [any |-> FALSE, force |-> FALSE, enabled |-> FALSE, head |-> 0, old |-> NoFile,
     loaded |-> PyNone, walk |-> NoWalk, cache |-> PyNone, saved |-> FALSE,
     raised |-> NoError]

HistoryIdle ==
    /\ h_head = 0 /\ h_quiet = {} /\ h_file = NoFile /\ h_scan = NoHistoryScan

(***************************************************************************)
(* The sets of ProfileAddon.update_cache.  For every profile the addon     *)
(* makes a plain set stable_cache and the overlay unstable_insoluble over  *)
(* the addon's global_insoluble; the stable ProfileData gets stable_cache  *)
(* and an overlay over unstable_insoluble, the unstable one an overlay     *)
(* over stable_cache and unstable_insoluble itself.  An object is <<kind,  *)
(* profile>>; a holder is the cache or insoluble attribute of one          *)
(* ProfileData.                                                            *)
(***************************************************************************)
OverlayProfiles == {1, 2}
Elems == {"x", "y"}
global_insoluble == <<"global_insoluble", 0>>
NoObject == <<"", 0>>
Objects ==
    {global_insoluble}
    \cup {<<kind, profile>> : kind \in {"stable_cache", "unstable_insoluble",
                                        "stable_insoluble", "unstable_cache"},
                              profile \in OverlayProfiles}
\* ProtectedSet(orig_set)._orig; a plain set has none.
orig(obj) ==
    CASE obj[1] = "unstable_insoluble" -> global_insoluble
      [] obj[1] = "stable_insoluble" -> <<"unstable_insoluble", obj[2]>>
      [] obj[1] = "unstable_cache" -> <<"stable_cache", obj[2]>>
      [] OTHER -> NoObject

\* ProtectedSet.__contains__ / set.__contains__
RECURSIVE contains(_, _, _)
contains(sets, obj, key) ==
    IF orig(obj) = NoObject THEN key \in sets[obj]
    ELSE contains(sets, orig(obj), key) \/ key \in sets[obj]

\* An add that writes to the wrapped set.
ProtectedSet_add_through(sets, obj, key) ==
    IF orig(obj) = NoObject THEN [sets EXCEPT ![obj] = @ \cup {key}]
    ELSE [sets EXCEPT ![orig(obj)] = @ \cup {key}]
\* ProtectedSet.add / set.add
ProtectedSet_add(sets, obj, key) ==
    IF orig(obj) = NoObject THEN [sets EXCEPT ![obj] = @ \cup {key}]
    ELSE IF contains(sets, orig(obj), key) THEN sets
    ELSE [sets EXCEPT ![obj] = @ \cup {key}]

\* The attributes of the ProfileData objects.
Holder(profile, key, field) == <<profile, key, field>>
Holders ==
    {Holder(profile, key, field) : profile \in OverlayProfiles,
                                   key \in {"stable", "unstable"},
                                   field \in {"cache", "insoluble"}}
\* The stable ProfileData given unstable_insoluble unwrapped.
held_unwrapped(holder) ==
    CASE holder[3] = "cache" /\ holder[2] = "stable" -> <<"stable_cache", holder[1]>>
      [] holder[3] = "cache" -> <<"unstable_cache", holder[1]>>
      [] OTHER -> <<"unstable_insoluble", holder[1]>>
\* The object a ProfileData is constructed with.
held(holder) ==
    CASE holder[3] = "cache" /\ holder[2] = "stable" -> <<"stable_cache", holder[1]>>
      [] holder[3] = "cache" -> <<"unstable_cache", holder[1]>>
      [] holder[2] = "stable" -> <<"stable_insoluble", holder[1]>>
      [] OTHER -> <<"unstable_insoluble", holder[1]>>

\* The elements a read through the object finds.
Contents(sets, obj) == {key \in Elems : contains(sets, obj, key)}

NoAdd ==
    [holder |-> Holder(0, "", ""), key |-> "",
     seen |-> [holder \in Holders |-> FALSE], base |-> {}]

OverlayIdle ==
    /\ o_set = [obj \in Objects |-> {}]
    /\ o_added = [holder \in Holders |-> {}]
    /\ o_last = NoAdd /\ o_adds = 0

UpdateIdle == u_cache = ""

NoIterCall == [kind |-> "", source |-> <<>>, restrict |-> NoKey, out |-> <<>>]

SourceIdle == s_call = NoIterCall

(***************************************************************************)
(* CachedAddon.existing_caches and remove_caches (caches.py).  The cache   *)
(* directory is cache_dir/repos/<repo>/<file>; a path is <<directory,      *)
(* file name>>, the directories are "cache_dir", "repos" and one per repo. *)
(* "other" is a file that is no cache of a registered type.                *)
(***************************************************************************)
CacheRepos == {"gentoo", "overlay"}
\* sorted(): the repos by path, the caches by type.
SortedRepos == <<"gentoo", "overlay">>
SortedCaches == <<EclassCache, GitCacheData, ProfileCache>>
TreePaths ==
    (CacheRepos \X ({c.file : c \in caches} \cup {"other"})) \cup {<<"cache_dir", "other">>}
NoTree == [dirs |-> {}, files |-> {}]
\* The directories a set of files needs.
DirsOf(files) ==
    IF files = {} THEN {}
    ELSE {"cache_dir"} \cup {f[1] : f \in files}
           \cup (IF \E f \in files : f[1] \in CacheRepos THEN {"repos"} ELSE {})
Trees ==
    {[dirs |-> DirsOf(files) \cup more, files |-> files] :
        files \in SUBSET TreePaths, more \in {{}, {"cache_dir"}, {"cache_dir", "repos"}}}
RemoveOptions == [force_cache : BOOLEAN, dry_run : BOOLEAN, cache : SUBSET {c.type : c \in caches}]

\* pathlib.Path(repos_dir).rglob(cache.file), sorted, per cache type.
existing_caches(tree) ==
    [type \in {c.type : c \in caches} |->
        LET cache == CHOOSE c \in caches : c.type = type
        IN  [j \in DOMAIN SelectSeq(SortedRepos, LAMBDA name : <<name, cache.file>> \in tree.files) |->
               <<SelectSeq(SortedRepos, LAMBDA name : <<name, cache.file>> \in tree.files)[j], cache.file>>]]

\* os.rmdir(directory): ENOTEMPTY unless nothing is in it.
IsEmptyDir(tree, directory) ==
    /\ ~\E f \in tree.files : f[1] = directory
    /\ directory = "repos" => tree.dirs \cap CacheRepos = {}
    /\ directory = "cache_dir" => "repos" \notin tree.dirs

\* os.unlink(path), then the loop removing empty cache dirs up to and
\* including cache_dir; it stops at the first directory that is not empty.
unlink_and_prune(tree, path) ==
    LET unlinked == [tree EXCEPT !.files = @ \ {path}]
        one == IF IsEmptyDir(unlinked, path[1])
               THEN [unlinked EXCEPT !.dirs = @ \ {path[1]}] ELSE unlinked
        two == IF one # unlinked /\ IsEmptyDir(one, "repos")
               THEN [one EXCEPT !.dirs = @ \ {"repos"}] ELSE one
    IN  IF two # one /\ IsEmptyDir(two, "cache_dir")
        THEN [two EXCEPT !.dirs = @ \ {"cache_dir"}] ELSE two

\* for path in paths
RECURSIVE remove_paths(_, _, _)
remove_paths(tree, paths, dry_run) ==
    IF paths = <<>> THEN tree
    ELSE remove_paths(IF dry_run THEN tree ELSE unlink_and_prune(tree, Head(paths)),
                      Tail(paths), dry_run)

\* for cache_type, paths in self.existing_caches.items()
RECURSIVE remove_types(_, _, _, _)
remove_types(tree, existing, todo, options) ==
    IF todo = <<>> THEN tree
    ELSE remove_types(IF Head(todo).type \in options.cache
                      THEN remove_paths(tree, existing[Head(todo).type], options.dry_run)
                      ELSE tree,
                      existing, Tail(todo), options)

\* remove_caches(): shutil.rmtree(cache_dir) with force_cache, a missing
\* directory passed over; the selected types' files otherwise.
remove_caches(tree, options) ==
    IF options.force_cache
    THEN NoTree
    ELSE remove_types(tree, existing_caches(tree), SortedCaches, options)

RemoveIdle ==
    /\ rm_tree = NoTree /\ rm_was = NoTree /\ rm_done = FALSE
    /\ rm_opts = [force_cache |-> FALSE, dry_run |-> FALSE, cache |-> {}]

(***************************************************************************)
(* The runners of a scan and their copies (pipeline.py).  Pool(...)        *)
(* forks the scheduler, so every pool worker runs on its own copy of the   *)
(* runners as they were when the pool was made; executor.submit pickles    *)
(* the runners, so every task runs on a copy of its own.  A copy is, per   *)
(* runner, the dedup set _metadata_errors and whether its checks were fed. *)
(***************************************************************************)
CopyRunners == <<RunnerV, RunnerP>>
NewCopy == [name \in {"V", "P"} |-> [errs |-> {}, fed |-> FALSE]]
CopyKey == <<1, ErrorA>>
\* What the checks of a runner do when fed a package, or a chunk that
\* starts with it: nothing, a report, or the MetadataException of CopyKey.
FeedOutcomes == {NoReports, Reports, MetadataException(CopyKey[1], CopyKey[2])}
CopyRepos == {<<Pkg(1, 1), Pkg(1, 2)>>, <<Pkg(1, 1), Pkg(2, 1)>>}
CopyScans ==
    [strategy : {"serial", "pool", "executor"}, repo : CopyRepos,
     feed : [{"V", "P"} -> [1..2 -> FeedOutcomes]],
     start : {NoReports, MetadataException(CopyKey[1], CopyKey[2])},
     remembers : BOOLEAN]

\* pipe.start() on every runner of a copy.
RECURSIVE start_copy(_, _, _, _)
start_copy(scan, copy, j, out) ==
    IF j > Len(CopyRunners) THEN [copy |-> copy, out |-> out]
    ELSE LET runner == CopyRunners[j]
             r == CheckRunner_start(runner.checks,
                     [c \in DOMAIN runner.checks |->
                         IF runner.name = "V" THEN scan.start ELSE NoReports],
                     copy[runner.name].errs)
         IN start_copy(scan, [copy EXCEPT ![runner.name].errs = r.errs], j + 1, out \o r.out)

\* pipe.run(restrict) on one runner of a copy.
run_copy(scan, copy, runner, restrict) ==
    LET items == source_itermatch(runner.scope, scan.repo, restrict)
        calls == feed_calls(runner.checks, items)
        outs == [c \in DOMAIN calls |->
                    scan.feed[runner.name][CHOOSE n \in DOMAIN scan.repo :
                                               scan.repo[n] = calls[c].key[1]]]
        r == CheckRunner_run(runner.checks, items, outs, copy[runner.name].errs, <<>>).acc
    IN [copy |-> [copy EXCEPT ![runner.name] =
                     [errs |-> r.errs, fed |-> @.fed \/ items # <<>>]],
        out |-> r.out]

\* for pipe in pipes: results.extend(pipe.run(restrict))
RECURSIVE run_copies(_, _, _, _, _, _)
run_copies(scan, copy, ps, restrict, j, out) ==
    IF j > Len(ps) THEN [copy |-> copy, out |-> out]
    ELSE LET r == run_copy(scan, copy, ps[j], restrict)
         IN run_copies(scan, r.copy, ps, restrict, j + 1, out \o r.out)

\* pipe.finish() on every runner of a copy: a check that remembers
\* reports on what it was fed, and so only if it was fed.
RECURSIVE finish_copy(_, _, _, _)
finish_copy(scan, copy, j, out) ==
    IF j > Len(CopyRunners) THEN [copy |-> copy, out |-> out]
    ELSE LET runner == CopyRunners[j]
             r == CheckRunner_finish(runner.checks,
                     [c \in DOMAIN runner.checks |->
                         IF scan.remembers /\ copy[runner.name].fed
                         THEN Reports ELSE NoReports],
                     copy[runner.name].errs)
         IN finish_copy(scan, copy, j + 1, out \o r.out)

\* The tasks of the executor strategy: one per versioned atom for the
\* runners that are not of package scope, one per package scope runner.
copy_tasks(scan) ==
    LET atoms == FilteredSource_itermatch("cpv", scan.repo, AlwaysTrue)
    IN  [t \in DOMAIN atoms |-> [runner |-> 1, restrict |-> atoms[t], done |-> FALSE, out |-> <<>>]]
        \o <<[runner |-> 2, restrict |-> AlwaysTrue, done |-> FALSE, out |-> <<>>]>>

CopyIdle ==
    /\ k_scan = [strategy |-> "", repo |-> <<>>, feed |-> <<>>, start |-> NoReports, remembers |-> FALSE]
    /\ k_pc = "" /\ k_main = NewCopy /\ k_workers = <<>> /\ k_todo = <<>>
    /\ k_tasks = <<>> /\ k_q = <<>>

\* CheckRunner.__init__, before any lifecycle call.
RunnerIdle ==
    /\ r_calls = 0
    /\ r_errs = {}
    /\ r_buf = <<>>
    /\ r_found = [k \in Keys |-> [hook |-> 0, drain |-> 0]]
    /\ r_raised = [k \in Keys |-> 0]
    /\ r_last = [phase |-> "", raised |-> "", made |-> 0, wanted |-> 0,
                 buf |-> <<>>, drained |-> <<>>]

PipeInit ==
    /\ scan_scope \in {"version", "package", "category"}
    /\ options_jobs \in 0..MaxJobs
    /\ jobs = IF options_jobs # 0 THEN options_jobs ELSE cpu_count
    /\ pipes \in PipeConfigs
    /\ repo \in Repos
    /\ noisy \in SUBSET RunnerNames
    /\ fault \in Faults
    /\ fault.at = "run" => \E j \in DOMAIN pipes : pipes[j].pipes[1].name = fault.runner
    /\ fault.at # "none" => noisy = RunnerNames
    /\ pc = "start"
    /\ results_q = <<>>
    /\ restricts_q = <<>>
    /\ producer = [pc |-> "off", pending |-> <<>>, sentinels |-> 0]
    /\ workers = [w \in 1..MaxJobs |-> [pc |-> "off", restrict |-> NoKey, sentinels |-> 0]]
    /\ futures = <<>>
    /\ yielded = {}
    /\ hooks = [c \in AllChecks |->
                  [start |-> 0, finish |-> 0, fed |-> FALSE, early |-> FALSE, late |-> FALSE]]
    /\ work = [i \in 1..MaxIdents |-> [took |-> 0, ran |-> 0, by |-> {}]]
    /\ ran = NoRuns

Init == PipeInit /\ RunnerIdle /\ CacheIdle /\ ReducerIdle /\ EqIdle /\ ProfileIdle /\ EclassIdle /\ HistoryIdle /\ OverlayIdle /\ UpdateIdle /\ SourceIdle /\ RemoveIdle /\ CopyIdle

\* A stretch of Pipeline.run that calls one lifecycle method on a list of
\* runners in the calling process and puts what they yielded.
serial(ps, phase, next) ==
    LET r == run_pipes(ps, phase, AlwaysTrue) IN
    /\ yielded' = yielded \cup Range(r.out)
    /\ hooks' = NoteCalls(hooks, phase, r.called)
    /\ IF r.raised # ""
       THEN pc' = "raised" /\ UNCHANGED results_q
       ELSE pc' = next /\ results_q' = put_results(results_q, r.out)
    /\ ran' = IF phase = "run"
              THEN [ran EXCEPT !.main = @ \o [j \in DOMAIN invoked(ps, r) |->
                                                <<invoked(ps, r)[j].name, AlwaysTrue>>]]
              ELSE ran
    /\ UNCHANGED <<envVars, restricts_q, producer, workers, futures, work>>
    /\ UNCHANGED offPipe

\* Lines 63-67: every runner's start().
MStart ==
    /\ pc = "start"
    /\ serial(all_pipes, "start", "dispatch")

\* Lines 69-74 and 80-85: the serial strategy.
MRunSerial ==
    /\ pc = "dispatch"
    /\ \/ scan_scope = "version"
       \/ scan_scope = "package" /\ options_jobs = 0
    /\ serial(all_pipes, "run", "finish")

\* Lines 87-93: the split of the runners in a package scope scan.
task_pkg_checks ==
    Flatten([j \in DOMAIN pipes |->
        IF pipes[j].scope = "package" THEN pipes[j].pipes ELSE <<>>])
task_version_checks ==
    Flatten([j \in DOMAIN pipes |->
        IF pipes[j].scope = "package" THEN <<>> ELSE pipes[j].pipes])

\* Lines 109-115: the split of the runners in a category scope scan.
pkg_checks ==
    Flatten([j \in DOMAIN pipes |->
        IF scope_le(pipes[j].scope, "package") THEN pipes[j].pipes ELSE <<>>])
non_pkg_checks ==
    Flatten([j \in DOMAIN pipes |->
        IF scope_le(pipes[j].scope, "package") THEN <<>> ELSE pipes[j].pipes])

\* Lines 94-101: one task per versioned atom for the version runners,
\* one task per package runner.
\* Mutant of submitted: one task per unversioned atom.
submitted_unversioned ==
    LET atoms == FilteredSource_itermatch("cp", repo, AlwaysTrue) IN
    [j \in DOMAIN atoms |->
        [pipes |-> task_version_checks, restrict |-> atoms[j],
         state |-> "pending", out |-> <<>>]]
    \o [j \in DOMAIN task_pkg_checks |->
        [pipes |-> <<task_pkg_checks[j]>>, restrict |-> AlwaysTrue,
         state |-> "pending", out |-> <<>>]]

submitted ==
    LET atoms == FilteredSource_itermatch("cpv", repo, AlwaysTrue) IN
    [j \in DOMAIN atoms |->
        [pipes |-> task_version_checks, restrict |-> atoms[j],
         state |-> "pending", out |-> <<>>]]
    \o [j \in DOMAIN task_pkg_checks |->
        [pipes |-> <<task_pkg_checks[j]>>, restrict |-> AlwaysTrue,
         state |-> "pending", out |-> <<>>]]

\* Mutant of executor_dispatch: the executor whatever options.jobs is.
executor_dispatch_always == scan_scope = "package"

\* Lines 75 and 80, else branch: package scope with a job count given.
executor_dispatch == scan_scope = "package" /\ options_jobs # 0

MSubmit ==
    /\ pc = "dispatch"
    /\ executor_dispatch
    /\ futures' = submitted
    /\ pc' = "executor"
    /\ UNCHANGED <<envVars, results_q, restricts_q, producer, workers, yielded,
                   hooks, work, ran>>
    /\ UNCHANGED offPipe

Running == {t \in DOMAIN futures : futures[t].state = "running"}
Pending == {t \in DOMAIN futures : futures[t].state = "pending"}

\* An executor process takes the next task of the call queue.
TaskStart ==
    /\ pc = "executor"
    /\ Pending # {}
    /\ Cardinality(Running) < jobs
    /\ LET t == CHOOSE u \in Pending : \A o \in Pending : u <= o IN
       futures' = [futures EXCEPT ![t].state = "running"]
    /\ UNCHANGED <<envVars, pc, results_q, restricts_q, producer, workers,
                   yielded, hooks, work, ran>>
    /\ UNCHANGED offPipe

\* _run_version_checks / _run_pkg_checks in an executor process.
TaskDone(t) ==
    /\ pc = "executor"
    /\ futures[t].state = "running"
    /\ LET r == run_pipes(futures[t].pipes, "run", futures[t].restrict) IN
       /\ futures' = [futures EXCEPT
                ![t].state = IF r.raised # "" THEN "failed" ELSE "done",
                ![t].out = IF r.raised # "" THEN <<>> ELSE r.out]
       /\ yielded' = yielded \cup Range(r.out)
       /\ hooks' = NoteCalls(hooks, "run", r.called)
       /\ ran' = [ran EXCEPT !.task = NoteRuns(@, invoked(futures[t].pipes, r),
                                               futures[t].restrict)]
    /\ UNCHANGED <<envVars, pc, results_q, restricts_q, producer, workers, work>>
    /\ UNCHANGED offPipe

\* Lines 102-105, once the with block has waited for every task:
\* as_completed hands the futures over in any order, future.result()
\* raises what a task raised, and the one list gathered is put.
MCollect ==
    /\ pc = "executor"
    /\ \A t \in DOMAIN futures : futures[t].state \in {"done", "failed"}
    /\ IF \E t \in DOMAIN futures : futures[t].state = "failed"
       THEN pc' = "raised" /\ UNCHANGED results_q
       ELSE /\ pc' = "finish"
            /\ \E order \in Permutations(DOMAIN futures) :
                 results_q' = Append(results_q,
                     Batch(Flatten([j \in DOMAIN futures |-> futures[order[j]].out])))
    /\ UNCHANGED <<envVars, restricts_q, producer, workers, futures, yielded,
                   hooks, work, ran>>
    /\ UNCHANGED offPipe

\* Lines 116-121: the producer process and the pool are started.
MSpawn ==
    /\ pc = "dispatch"
    /\ scan_scope = "category"
    /\ pkg_checks # <<>>
    /\ IF fault.at = "init"
       THEN pc' = "raised" /\ UNCHANGED <<producer, workers>>
       ELSE /\ pc' = "p_join"
            /\ producer' = [producer EXCEPT !.pc = "source"]
            /\ workers' = [w \in 1..MaxJobs |->
                    IF w <= jobs THEN [workers[w] EXCEPT !.pc = "get"] ELSE workers[w]]
    /\ UNCHANGED <<envVars, results_q, restricts_q, futures, yielded, hooks, work, ran>>
    /\ UNCHANGED offPipe

\* Line 116, no package runner: nothing is started.
MSkipPool ==
    /\ pc = "dispatch"
    /\ scan_scope = "category"
    /\ pkg_checks = <<>>
    /\ pc' = "nonpkg"
    /\ UNCHANGED <<envVars, results_q, restricts_q, producer, workers, futures,
                   yielded, hooks, work, ran>>
    /\ UNCHANGED offPipe

\* _insert_pkgs, line 46: the source is made; the process dies when
\* that raises.
PSource ==
    /\ producer.pc = "source"
    /\ producer' = IF fault.at = "queue"
                   THEN [producer EXCEPT !.pc = "failed"]
                   ELSE [producer EXCEPT !.pc = "put",
                            !.pending = FilteredSource_itermatch("cp", repo, AlwaysTrue)]
    /\ UNCHANGED <<envVars, pc, results_q, restricts_q, workers, futures, yielded,
                   hooks, work, ran>>
    /\ UNCHANGED offPipe

\* SimpleQueue.put: blocks while the pipe is full.
queue_put(q, x) == Append(q, x)
can_put(q) == Len(q) < QueueCap

\* _insert_pkgs, lines 47-48.
PPut ==
    /\ producer.pc = "put"
    /\ producer.pending # <<>>
    /\ can_put(restricts_q)
    /\ restricts_q' = queue_put(restricts_q, Head(producer.pending))
    /\ producer' = [producer EXCEPT !.pending = Tail(@)]
    /\ UNCHANGED <<envVars, pc, results_q, workers, futures, yielded, hooks, work, ran>>
    /\ UNCHANGED offPipe

\* Mutant of sentinels_wanted: one sentinel too few.
sentinels_short == jobs - 1

\* for i in range(self.jobs): queue.put(None)
sentinels_wanted == jobs

\* _insert_pkgs, lines 49-50.
PSentinel ==
    /\ producer.pc = "put"
    /\ producer.pending = <<>>
    /\ can_put(restricts_q)
    /\ restricts_q' = queue_put(restricts_q, Sentinel)
    /\ producer' = [producer EXCEPT
            !.sentinels = @ + 1,
            !.pc = IF producer.sentinels + 1 >= sentinels_wanted THEN "done" ELSE "put"]
    /\ UNCHANGED <<envVars, pc, results_q, workers, futures, yielded, hooks, work, ran>>
    /\ UNCHANGED offPipe

\* _run_checks, lines 54-56.
WGet(w) ==
    /\ workers[w].pc = "get"
    /\ restricts_q # <<>>
    /\ restricts_q' = Tail(restricts_q)
    /\ LET restrict == Head(restricts_q) IN
       IF restrict = Sentinel
       THEN /\ workers' = [workers EXCEPT ![w].pc = "done", ![w].sentinels = @ + 1]
            /\ UNCHANGED work
       ELSE /\ workers' = [workers EXCEPT ![w].pc = "run", ![w].restrict = restrict]
            /\ work' = [work EXCEPT ![restrict.i].took = @ + 1,
                                    ![restrict.i].by = @ \cup {w}]
    /\ UNCHANGED <<envVars, pc, results_q, producer, futures, yielded, hooks, ran>>
    /\ UNCHANGED offPipe

\* _run_checks, lines 57-60; the process dies when a runner raises.
WRun(w) ==
    /\ workers[w].pc = "run"
    /\ LET r == run_pipes(pkg_checks, "run", workers[w].restrict) IN
       /\ yielded' = yielded \cup Range(r.out)
       /\ hooks' = NoteCalls(hooks, "run", r.called)
       /\ IF r.raised # ""
          THEN /\ workers' = [workers EXCEPT ![w].pc = "dead"]
               /\ UNCHANGED <<results_q, work>>
          ELSE /\ workers' = [workers EXCEPT ![w].pc = "get", ![w].restrict = NoKey]
               /\ results_q' = Append(results_q, Batch(r.out))
               /\ work' = [work EXCEPT ![workers[w].restrict.i].ran = @ + 1]
       /\ ran' = [ran EXCEPT !.pool = NoteRuns(@, invoked(pkg_checks, r),
                                               workers[w].restrict)]
    /\ UNCHANGED <<envVars, pc, restricts_q, producer, futures>>
    /\ UNCHANGED offPipe

\* p.join(): returns once the producer process has ended.
producer_ended == producer.pc \in {"done", "failed"}

MJoinProducer ==
    /\ pc = "p_join"
    /\ producer_ended
    /\ pc' = "pool_join"
    /\ UNCHANGED <<envVars, results_q, restricts_q, producer, workers, futures,
                   yielded, hooks, work, ran>>
    /\ UNCHANGED offPipe

\* Mutant of pool_ended: the pool is not waited for.
pool_ended_nowait == TRUE

\* pool.join(): returns once every pool process has ended.
pool_ended == \A w \in 1..jobs : workers[w].pc \in {"done", "dead"}

MJoinPool ==
    /\ pc = "pool_join"
    /\ pool_ended
    /\ pc' = "nonpkg"
    /\ UNCHANGED <<envVars, results_q, restricts_q, producer, workers, futures,
                   yielded, hooks, work, ran>>
    /\ UNCHANGED offPipe

\* Lines 124-129: the runners coarser than package scope, serially.
MRunNonPkg ==
    /\ pc = "nonpkg"
    /\ serial(non_pkg_checks, "run", "finish")

\* Lines 131-135: every runner's finish().
MFinish ==
    /\ pc = "finish"
    /\ serial(all_pipes, "finish", "end")

\* Line 137: results_q.put(None).
MEnd ==
    /\ pc = "end"
    /\ results_q' = Append(results_q, EndMarker)
    /\ pc' = "returned"
    /\ UNCHANGED <<envVars, restricts_q, producer, workers, futures, yielded,
                   hooks, work, ran>>
    /\ UNCHANGED offPipe

Next ==
    \/ MStart
    \/ MRunSerial
    \/ MSubmit
    \/ TaskStart
    \/ \E t \in DOMAIN futures : TaskDone(t)
    \/ MCollect
    \/ MSpawn
    \/ MSkipPool
    \/ PSource
    \/ PPut
    \/ PSentinel
    \/ \E w \in 1..MaxJobs : WGet(w)
    \/ \E w \in 1..MaxJobs : WRun(w)
    \/ MJoinProducer
    \/ MJoinPool
    \/ MRunNonPkg
    \/ MFinish
    \/ MEnd

Spec == Init /\ [][Next]_vars
(***************************************************************************)
(* Properties of Pipeline.run, checked under Spec.                         *)
(***************************************************************************)
PhaseRank(phase) == CASE phase = "start" -> 1 [] phase = "run" -> 2 [] OTHER -> 3
Phases(k) == {f.phase : f \in Range(results_q[k].results)}
pool_strategy == scan_scope = "category" /\ pkg_checks # <<>>
task_strategy == scan_scope = "package" /\ options_jobs # 0
identities == FilteredSource_itermatch("cp", repo, AlwaysTrue)
\* How many times a finding was put on the results channel.
TimesPut(f) == SeqSum([k \in DOMAIN results_q |-> Count(results_q[k].results, f)])
all_checks_plugged ==
    UNION {Range(r.checks) : r \in UNION {Range(pipes[j].pipes) : j \in DOMAIN pipes}}

\* The producer/worker-pool handoff is blocked: the scheduler waits in a
\* join and neither it, the producer nor any worker can take a step.
producer_can_step ==
    producer.pc = "source" \/ (producer.pc = "put" /\ can_put(restricts_q))
worker_can_step(w) ==
    workers[w].pc = "run" \/ (workers[w].pc = "get" /\ restricts_q # <<>>)
scheduler_can_step ==
    (pc = "p_join" /\ producer_ended) \/ (pc = "pool_join" /\ pool_ended)
Blocked ==
    /\ pc \in {"p_join", "pool_join"}
    /\ ~scheduler_can_step
    /\ ~producer_can_step
    /\ \A w \in 1..MaxJobs : ~worker_can_step(w)

\* C1: on the results channel no batch holds findings of two phases, every
\* batch with start() findings comes before every batch with run-phase
\* findings, and those come before every batch with finish() findings,
\* whatever the dispatch strategy and the interleaving of the workers.
C1_PhaseOrder ==
    \A k \in DOMAIN results_q : \A l \in DOMAIN results_q :
        k <= l => \A a \in Phases(k) : \A b \in Phases(l) :
                      PhaseRank(a) <= PhaseRank(b)

\* A worker-pool scan has returned with a start batch, a batch from each
\* of two workers and a finish batch on the channel.
C1_Witness ==
    /\ pc = "returned" /\ pool_strategy /\ jobs = 2
    /\ \A i \in 1..2 : work[i].ran = 1 /\ work[i].by = {i}
    /\ {"start", "run", "finish"} \subseteq UNION {Phases(k) : k \in DOMAIN results_q}

\* C2: in the producer/worker-pool strategy no identity is taken from the
\* queue twice and no worker takes two sentinels; while no exception is
\* raised the scheduler, the producer and the workers are never all blocked;
\* and once the scheduler has joined the producer and the pool, every
\* identity the producer enumerated was taken and run exactly once by one
\* worker, every worker has taken its one sentinel and exited, and the
\* queue is empty.
C2_PoolHandoff ==
    /\ \A i \in 1..MaxIdents :
          work[i].took <= 1 /\ work[i].ran <= work[i].took /\ Cardinality(work[i].by) <= 1
    /\ \A w \in 1..MaxJobs : workers[w].sentinels <= 1
    /\ fault.at = "none" => ~Blocked
    /\ (fault.at = "none" /\ pool_strategy /\ pc \in {"nonpkg", "finish", "end", "returned"}) =>
          /\ \A i \in 1..MaxIdents :
                IF unversioned_atom(Pkg(i, 1)) \in Range(identities)
                THEN work[i].took = 1 /\ work[i].ran = 1
                ELSE work[i].took = 0
          /\ \A w \in 1..jobs : workers[w].pc = "done" /\ workers[w].sentinels = 1
          /\ restricts_q = <<>>
          /\ producer.pc = "done" /\ producer.sentinels = jobs

\* The scheduler has joined a pool of one worker that ran two identities,
\* the first of them with two versions in the repo.
C2_Witness ==
    /\ pc = "nonpkg" /\ pool_strategy /\ fault.at = "none"
    /\ jobs = 1 /\ Len(identities) = 2 /\ Len(repo) > Len(identities)
    /\ \A i \in 1..2 : work[i].ran = 1

\* C3: the terminal marker is only ever the last value on the results
\* channel, so there is at most one and nothing is put after it; and when
\* Pipeline.run has returned it is there.
C3_OneEndMarker ==
    /\ \A k \in DOMAIN results_q : results_q[k] = EndMarker => k = Len(results_q)
    /\ pc = "returned" => results_q # <<>> /\ results_q[Len(results_q)] = EndMarker

\* A worker-pool scan has returned after its workers put batches.
C3_Witness ==
    /\ pc = "returned" /\ pool_strategy
    /\ \E i \in 1..MaxIdents : work[i].ran = 1
    /\ Len(results_q) >= 3

\* C4: when a runner's run() raised in a worker of the pool or in a task
\* of the executor, Pipeline.run does not return as a completed scan.
C4_WorkerFailureIsFatal ==
    (\/ \E w \in 1..MaxJobs : workers[w].pc = "dead"
     \/ \E t \in DOMAIN futures : futures[t].state = "failed")
    => pc # "returned"

\* C5: when the producer cannot be created or dies enumerating, the
\* scheduler is never blocked for good in a join and Pipeline.run does not
\* return as a completed scan.
C5_ProducerFailureEnds ==
    (fault.at \in {"init", "queue"} /\ pool_strategy) =>
        /\ pc # "returned"
        /\ ~Blocked

\* C6: when Pipeline.run has returned, every finding a runner's start(),
\* run() or finish() yielded was put on the results channel exactly once.
C6_NothingDropped ==
    pc = "returned" => \A f \in yielded : TimesPut(f) = 1

\* C7: the start hook of a check is called at most once and never after
\* its finish hook, its finish hook at most once and never before its
\* start hook, no feed comes before start or after finish, and when
\* Pipeline.run has returned both were called on every check plugged in.
C7_HookOrder ==
    /\ \A c \in AllChecks :
          /\ hooks[c].start <= 1 /\ hooks[c].finish <= 1
          /\ ~hooks[c].early /\ ~hooks[c].late
    /\ pc = "returned" =>
          \A c \in all_checks_plugged : hooks[c].start = 1 /\ hooks[c].finish = 1

\* A worker-pool scan has returned after pool workers fed both checks of
\* the version runner and the scheduler fed the category runner.
C7_Witness ==
    /\ pc = "returned" /\ pool_strategy
    /\ hooks["v1"].fed /\ hooks["v2"].fed /\ hooks["c1"].fed
    /\ hooks["v1"].finish = 1

\* The runners in registration order, and the run() calls on one of them.
registered == Flatten([j \in DOMAIN pipes |-> pipes[j].pipes])
RunsInMain(name) == {j \in DOMAIN ran.main : ran.main[j][1] = name}
RunsElsewhere(name) ==
    {k \in Restrictions :
        CopiesIn(<<name, k>>, ran.pool) > 0 \/ CopiesIn(<<name, k>>, ran.task) > 0}
run_over == pc \in {"finish", "end", "returned"}

\* C27: in a version scope scan, and in a package scope scan with no job
\* count, no producer, pool worker, queue entry or executor task ever
\* exists, run() is called in the calling process only, on the runners in
\* registration order with the scan's restriction, and once on every
\* runner by the time the run phase is over.
C27_SerialDispatch ==
    (scan_scope = "version" \/ (scan_scope = "package" /\ options_jobs = 0)) =>
        /\ producer.pc = "off" /\ \A w \in 1..MaxJobs : workers[w].pc = "off"
        /\ futures = <<>> /\ restricts_q = <<>>
        /\ ran.pool = NoRuns.pool /\ ran.task = NoRuns.task
        /\ Len(ran.main) <= Len(registered)
        /\ \A j \in DOMAIN ran.main : ran.main[j] = <<registered[j].name, AlwaysTrue>>
        /\ pc \in {"start", "dispatch"} => ran.main = <<>>
        /\ run_over => Len(ran.main) = Len(registered)

\* A package scope scan with no job count has returned after running the
\* version, package and category runners over a repo of two packages.
C27_Witness ==
    /\ scan_scope = "package" /\ options_jobs = 0 /\ pc = "returned"
    /\ ran.main = <<<<"V", AlwaysTrue>>, <<"P", AlwaysTrue>>, <<"C", AlwaysTrue>>>>
    /\ Len(repo) = 2 /\ hooks["v1"].fed

\* C28: in a category scope scan a runner of package scope or finer is
\* run by pool workers only, on identities taken from the queue and once
\* for every identity taken by the time the run phase is over; a coarser
\* runner is run in the calling process only, with the scan's
\* restriction, once by the time the run phase is over; every runner is
\* in exactly one of the two groups; with no runner in the first group no
\* producer or pool process is started.
C28_CoarsePartition ==
    scan_scope = "category" =>
        /\ \A j \in DOMAIN registered :
             LET r == registered[j] IN
             /\ (r \in Range(pkg_checks)) # (r \in Range(non_pkg_checks))
             /\ (r \in Range(pkg_checks)) = scope_le(r.scope, "package")
             /\ \A k \in Restrictions : CopiesIn(<<r.name, k>>, ran.task) = 0
             /\ IF scope_le(r.scope, "package")
                THEN /\ RunsInMain(r.name) = {}
                     /\ \A k \in RunsElsewhere(r.name) : k.t = "cp"
                     /\ \A i \in 1..MaxIdents :
                          LET n == CopiesIn(<<r.name, unversioned_atom(Pkg(i, 1))>>, ran.pool) IN
                          /\ n <= work[i].took
                          /\ run_over => n = work[i].took
                ELSE /\ RunsElsewhere(r.name) = {}
                     /\ Cardinality(RunsInMain(r.name)) <= 1
                     /\ \A m \in RunsInMain(r.name) : ran.main[m][2] = AlwaysTrue
                     /\ run_over => Cardinality(RunsInMain(r.name)) = 1
        /\ (\A j \in DOMAIN registered : ~scope_le(registered[j].scope, "package")) =>
             /\ producer.pc = "off" /\ \A w \in 1..MaxJobs : workers[w].pc = "off"
             /\ restricts_q = <<>>

\* The tasks of the executor by what they were submitted for.
VersionTasks(restrict) ==
    {t \in DOMAIN futures :
        /\ futures[t].restrict = restrict
        /\ futures[t].pipes = SelectSeq(registered, LAMBDA r : r.scope # "package")}
IdentityTasks(i) ==
    UNION {VersionTasks(k) : k \in {r \in Restrictions : r.t # "all" /\ r.i = i}}
PackageTasks(runner) ==
    {t \in DOMAIN futures :
        futures[t].restrict = AlwaysTrue /\ futures[t].pipes = <<runner>>}
tasks_submitted == scan_scope = "package" /\ options_jobs # 0 /\ pc \notin {"start", "dispatch"}

C30_PutAsCompleted ==
    [][\A t \in DOMAIN futures :
          (t \in DOMAIN futures' /\ futures[t].state = "running"
                                 /\ futures'[t].state = "done") =>
              results_q' = Append(results_q, Batch(futures'[t].out))]_vars
(***************************************************************************)
(* RunnerSpec: one CheckRunner with two checks, called in any order.  In   *)
(* one lifecycle call each check behaves the same way on every entity: it  *)
(* returns None, reports, raises MetadataException with one of the keys    *)
(* or raises another exception.                                            *)
(***************************************************************************)
RunnerChecks == <<"k1", "k2">>
HookOutcomes ==
    {NoReports, Reports, Unhandled} \cup {MetadataException(k[1], k[2]) : k \in Keys}
\* What the source's error callbacks buffer during one run().
Buffered == {<<>>} \cup {<<k>> : k \in Keys}
Items(n) == [j \in 1..n |-> <<Pkg(j, 1)>>]

\* The scan of Spec stays as constructed.
PipeIdle ==
    /\ PipeInit
    /\ scan_scope = "version" /\ options_jobs = 0
    /\ pipes = PipesFor(<<RunnerC>>) /\ repo = <<>>
    /\ noisy = {} /\ fault.at = "none"

RunnerInit == PipeIdle /\ RunnerIdle /\ CacheIdle /\ ReducerIdle /\ EqIdle /\ ProfileIdle /\ EclassIdle /\ HistoryIdle /\ OverlayIdle /\ UpdateIdle /\ SourceIdle /\ RemoveIdle /\ CopyIdle

\* The hook calls of a loop that were made and raised MetadataException(k).
Raises(acc, outs, k) ==
    Cardinality({j \in 1..Len(acc.called) : outs[j] = MetadataException(k[1], k[2])})
\* The MetadataError findings for key k among those a check's hook (or
\* the source's buffer) gave rise to.
Found(out, k, drained) ==
    Cardinality({j \in DOMAIN out :
        /\ out[j].kind = "MetadataError"
        /\ <<out[j].pkg, out[j].error>> = k
        /\ (out[j].check = "source") = drained})

\* The history counters stop at MaxCount.
Counted(n, d) == IF n + d > MaxCount THEN MaxCount ELSE n + d

\* The keys of the findings made from the source's buffer, in order.
Drained(out) ==
    LET found == SelectSeq(out, LAMBDA f : f.kind = "MetadataError" /\ f.check = "source")
    IN [j \in DOMAIN found |-> <<found[j].pkg, found[j].error>>]

\* A lifecycle call has returned or raised: acc is what its loop gathered,
\* buf what the source's buffer held when its loop ended.
Called(phase, calls, outs, acc, buf) ==
    /\ r_calls' = r_calls + 1
    /\ r_errs' = acc.errs
    /\ r_found' = [k \in Keys |->
            [hook |-> Counted(r_found[k].hook, Found(acc.out, k, FALSE)),
             drain |-> Counted(r_found[k].drain, Found(acc.out, k, TRUE))]]
    /\ r_raised' = [k \in Keys |->
            IF catches_metadata(phase)
            THEN Counted(r_raised[k], Raises(acc, outs, k)) ELSE r_raised[k]]
    /\ r_last' = [phase |-> phase, raised |-> acc.raised, made |-> Len(acc.called),
                  wanted |-> Len(calls), buf |-> buf, drained |-> Drained(acc.out)]
    /\ UNCHANGED offRunner

RStart ==
    /\ r_calls < MaxCalls
    /\ \E b \in [Range(RunnerChecks) -> HookOutcomes] :
         LET calls == lifecycle_calls(RunnerChecks)
             outs == [j \in DOMAIN calls |-> b[calls[j].check]]
         IN \E acc \in {CheckRunner_start(RunnerChecks, outs, r_errs)} :
                /\ Called("start", calls, outs, acc, r_buf)
                /\ UNCHANGED r_buf

RRun ==
    /\ r_calls < MaxCalls
    /\ \E n \in 0..MaxItems, b \in [Range(RunnerChecks) -> HookOutcomes],
          more \in Buffered :
         LET calls == feed_calls(RunnerChecks, Items(n))
             outs == [j \in DOMAIN calls |-> b[calls[j].check]]
         IN \E done \in {CheckRunner_run(RunnerChecks, Items(n), outs, r_errs, r_buf \o more)} :
                /\ Called("run", calls, outs, done.acc, r_buf \o more)
                /\ r_buf' = done.buf

RFinish ==
    /\ r_calls < MaxCalls
    /\ \E b \in [Range(RunnerChecks) -> HookOutcomes] :
         LET calls == lifecycle_calls(RunnerChecks)
             outs == [j \in DOMAIN calls |-> b[calls[j].check]]
         IN \E acc \in {CheckRunner_finish(RunnerChecks, outs, r_errs)} :
                /\ Called("finish", calls, outs, acc, r_buf)
                /\ UNCHANGED r_buf

RunnerNext == RStart \/ RRun \/ RFinish

RunnerSpec == RunnerInit /\ [][RunnerNext]_vars

(***************************************************************************)
(* Properties of CheckRunner, checked under RunnerSpec.                    *)
(***************************************************************************)
\* C8: a key that start() or feed calls of the runner raised as
\* MetadataException, however many times, from either check and for any
\* entity, has exactly one MetadataError finding made from a raised
\* exception, and a key none of them raised has none.
C8_FeedErrorOnce ==
    \A k \in Keys :
        r_found[k].hook = IF r_raised[k] >= 1 THEN 1 ELSE 0

\* One run() in which both checks raised the same key for two entities.
C8_Witness ==
    \E k \in Keys :
        /\ r_last.phase = "run" /\ r_last.made = 4
        /\ r_raised[k] = MaxCount /\ r_found[k].hook = 1

\* C9: no key has two MetadataError findings, whether made from an
\* exception raised in start() or in a feed, or drained from the source's
\* buffered metadata errors.
C9_KeyReportedOnce ==
    \A k \in Keys : r_found[k].hook + r_found[k].drain <= 1

\* C10: a MetadataException raised by a check in start(), feed or
\* finish() never leaves the runner, and the hooks after it in the loop
\* are still called.
C10_MetadataErrorContained ==
    /\ r_last.raised # "MetadataException"
    /\ r_last.raised = "" => r_last.made = r_last.wanted

\* C31: when run() has gone through its stream, the findings made from the
\* source's buffer are one for every buffered error, in the buffer's
\* order, and the buffer is empty; start() and finish() make none.  A
\* later run() therefore finds only what was buffered since.
C31_BufferDrainedOnce ==
    /\ (r_last.phase = "run" /\ r_last.raised = "") =>
            r_last.drained = r_last.buf /\ r_buf = <<>>
    /\ (r_last.phase # "run" \/ r_last.raised # "") =>
            r_last.drained = <<>> /\ r_buf = r_last.buf

\* The runner's second call is a run() that buffered and drained nothing,
\* after a first run() that drained a buffered error.
C31_Witness ==
    /\ r_calls = 2 /\ r_last.phase = "run" /\ r_last.raised = ""
    /\ r_last.buf = <<>> /\ r_last.drained = <<>>
    /\ \E k \in Keys : r_found[k].drain = 1
(***************************************************************************)
(* CacheSpec: the cache file of one addon of the registry, loaded and      *)
(* saved by it.  A save is followed opcode by opcode, so that other calls, *)
(* an I/O error or the end of the process fall between its writes.         *)
(***************************************************************************)
\* The payloads an addon saves: under its registered version, or under the
\* version before it (an older program).
PayloadsOf(addon) == {DictCache(d, v) : d \in Datas, v \in {addon.version, addon.version - 1}}

CacheInit ==
    /\ PipeIdle /\ RunnerIdle /\ ReducerIdle /\ EqIdle /\ ProfileIdle /\ EclassIdle /\ HistoryIdle /\ OverlayIdle /\ UpdateIdle /\ SourceIdle /\ RemoveIdle /\ CopyIdle
    /\ \E addon \in caches :
         /\ c_save = [NoSave EXCEPT !.addon = addon]
         /\ c_file \in {NoFile} \cup {File(b) : b \in Foreign}
                      \cup {File(pickle_dump(p)) : p \in PayloadsOf(addon)}
    /\ c_dir \in BOOLEAN /\ (c_file.exists => c_dir)
    /\ c_tmp = NoFile /\ c_last = NoCall

\* The payload the call that ended last saved, if it saved one.
JustSaved ==
    IF c_last.op = "save" /\ c_last.raised = NoError THEN c_last.arg ELSE PyNone

\* A call that ended: its argument (the fallback of a load, the payload of
\* a save), what it returned or raised, the file it found at the path and
\* what interrupted it.
Call(op, arg, ret, raised, before, cut) ==
    [op |-> op, addon |-> c_save.addon.type, arg |-> arg, ret |-> ret, raised |-> raised,
     before |-> before, fresh |-> IF op = "load" THEN JustSaved ELSE PyNone,
     fault |-> cut]

\* load_cache(path, fallback), by this or by another process.
LoadCache ==
    /\ \E fallback \in Fallbacks :
         \E r \in {load_cache(c_save.addon, c_file, fallback)} :
            /\ c_file' = r.file
            /\ c_last' = Call("load", fallback, r.ret, Raised(r.raised), c_file, "")
    /\ UNCHANGED <<c_dir, c_tmp, c_save, offCache>>

\* AtomicWriteFile(path): the file the stream is written to, the temporary
\* file next to the path.
write_in_place == "path"
write_to == "tmp"

\* save_cache(data, path) up to the open of AtomicWriteFile: the
\* directories are made and the file to write is created empty.
SaveOpen ==
    /\ c_save.pc = "idle"
    /\ \E data \in PayloadsOf(c_save.addon) :
         c_save' = [c_save EXCEPT !.pc = "writing", !.payload = data, !.old = c_file]
    /\ c_dir' = TRUE
    /\ IF write_to = "tmp"
       THEN c_tmp' = File(<<>>) /\ UNCHANGED c_file
       ELSE c_file' = File(<<>>) /\ UNCHANGED c_tmp
    /\ UNCHANGED <<c_last, offCache>>

\* os.makedirs or the open fails with an IOError.
SaveOpenFails ==
    /\ c_save.pc = "idle"
    /\ \E data \in PayloadsOf(c_save.addon), made \in BOOLEAN :
         /\ c_dir' = (c_dir \/ made)
         /\ c_last' = Call("save", data, PyNone, io_error(c_save.addon), c_file, "open")
    /\ UNCHANGED <<c_file, c_tmp, c_save, offCache>>

Written == IF write_to = "tmp" THEN c_tmp.bytes ELSE c_file.bytes

\* pickle.dump writes the next opcode.
SaveWrite ==
    /\ c_save.pc = "writing"
    /\ Len(Written) < Len(pickle_dump(c_save.payload))
    /\ \E f \in {File(Append(Written, pickle_dump(c_save.payload)[Len(Written) + 1]))} :
         IF write_to = "tmp"
         THEN c_tmp' = f /\ UNCHANGED c_file
         ELSE c_file' = f /\ UNCHANGED c_tmp
    /\ UNCHANGED <<c_dir, c_save, c_last, offCache>>

\* The with block ends: close() renames the temporary file over the path.
SaveClose ==
    /\ c_save.pc = "writing"
    /\ Written = pickle_dump(c_save.payload)
    /\ IF write_to = "tmp"
       THEN c_file' = c_tmp /\ c_tmp' = NoFile
       ELSE UNCHANGED <<c_file, c_tmp>>
    /\ c_save' = [c_save EXCEPT !.pc = "idle", !.payload = PyNone, !.old = NoFile]
    /\ c_last' = Call("save", c_save.payload, PyNone, NoError, c_save.old, "")
    /\ UNCHANGED <<c_dir, offCache>>

\* A write, the flush or the rename fails with an IOError: the temporary
\* file is discarded and the except clause raises.
SaveFails ==
    /\ c_save.pc = "writing"
    /\ IF write_to = "tmp" THEN c_tmp' = NoFile ELSE UNCHANGED c_tmp
    /\ c_save' = [c_save EXCEPT !.pc = "idle", !.payload = PyNone, !.old = NoFile]
    /\ c_last' = Call("save", c_save.payload, PyNone, io_error(c_save.addon), c_save.old, "write")
    /\ UNCHANGED <<c_dir, c_file, offCache>>

\* The process is terminated inside the with block: nothing of it runs
\* any more, the files stay as they are.
SaveKilled ==
    /\ c_save.pc = "writing"
    /\ c_save' = [c_save EXCEPT !.pc = "idle", !.payload = PyNone, !.old = NoFile]
    /\ c_last' = Call("save", c_save.payload, PyNone, Raised("killed"), c_save.old, "killed")
    /\ UNCHANGED <<c_dir, c_file, c_tmp, offCache>>

CacheNext ==
    \/ LoadCache \/ SaveOpen \/ SaveOpenFails \/ SaveWrite
    \/ SaveClose \/ SaveFails \/ SaveKilled

CacheSpec == CacheInit /\ [][CacheNext]_vars
(***************************************************************************)
(* Properties of the cache store, checked under CacheSpec.                 *)
(***************************************************************************)
\* What the file a load found decodes to.
Stored == pickle_load(c_last.before.bytes)
StoredCache == c_last.before.exists /\ Stored.exc = "" /\ Stored.value.t = "cache"

\* C11: a load that follows a successful save of a payload carrying the
\* addon's registered version returns a payload equal to the saved one,
\* raises nothing and leaves the file as the save wrote it.
C11_RoundTrip ==
    (/\ c_last.op = "load" /\ c_last.fresh # PyNone
     /\ c_last.fresh.version = c_save.addon.version)
    => /\ c_last.ret = c_last.fresh
       /\ c_last.raised = NoError
       /\ c_file = File(pickle_dump(c_last.fresh))

C11_Witness ==
    /\ c_last.op = "load" /\ c_last.fresh # PyNone
    /\ c_last.fresh.version = c_save.addon.version
    /\ Len(c_last.fresh.data) = MaxEntries
    /\ c_last.ret = c_last.fresh /\ c_file.exists

\* C12: a load that finds a cache whose stored version differs from the
\* addon's registered version returns the fallback, never the stored
\* payload, raises nothing, and the file is gone.
C12_StaleVersion ==
    (/\ c_last.op = "load" /\ StoredCache
     /\ Stored.value.version # c_save.addon.version)
    => /\ c_last.ret = c_last.arg
       /\ c_last.ret # Stored.value
       /\ c_last.raised = NoError
       /\ ~c_file.exists

C12_Witness ==
    /\ c_last.op = "load" /\ StoredCache
    /\ Stored.value.version = c_save.addon.version - 1
    /\ Len(Stored.value.data) = MaxEntries
    /\ c_last.ret = EmptyDict /\ ~c_file.exists

\* C13: a load of a missing path returns the fallback and leaves the path
\* missing; a load of a file that fails to decode, whatever the error,
\* returns the fallback and removes the file; neither raises.
C13_MissingOrCorrupt ==
    /\ (c_last.op = "load" /\ ~c_last.before.exists)
       => c_last.ret = c_last.arg /\ c_last.raised = NoError /\ ~c_file.exists
    /\ (c_last.op = "load" /\ c_last.before.exists /\ Stored.exc # "")
       => c_last.ret = c_last.arg /\ c_last.raised = NoError /\ ~c_file.exists

\* C14: while a save is going on, and after it failed or the process was
\* terminated, the path holds what it held before the save or nothing;
\* after the save returned it holds the whole stream of the new payload.
C14_AtomicSave ==
    /\ c_save.pc = "writing" => c_file \in {c_save.old, NoFile}
    /\ (c_save.pc = "idle" /\ c_last.op = "save")
       => IF c_last.raised = NoError
          THEN c_file = File(pickle_dump(c_last.arg))
          ELSE c_file \in {c_last.before, NoFile}

\* A process terminated in the middle of the stream, the path still
\* holding the earlier cache.
C14_Witness ==
    /\ c_last.op = "save" /\ c_last.fault = "killed" /\ c_save.pc = "idle"
    /\ c_tmp.exists /\ Len(c_tmp.bytes) = 2
    /\ c_file.exists /\ c_file = c_last.before
    /\ c_file # File(pickle_dump(c_last.arg))

\* C15: a save in which making the directory, opening or writing the file
\* failed with an I/O error ends by raising UserException naming the
\* cache type and the path, never by returning.
C15_SaveErrorEscalated ==
    (c_last.op = "save" /\ c_last.fault \in {"open", "write"})
    => /\ c_last.raised # NoError
       /\ c_last.raised = [t |-> "UserException", type |-> c_save.addon.type,
                           path |-> c_save.addon.file]

C15_Witness ==
    /\ c_last.op = "save" /\ c_last.fault = "write"
    /\ c_last.raised.t = "UserException" /\ c_last.raised.path = "git.pickle"
    /\ ~c_tmp.exists
(***************************************************************************)
(* ReducerSpec: a reducer over one stream of packages.  The stream is any  *)
(* sequence of up to MaxPkgs packages of two identities, sorted or not,    *)
(* live or not, in slots whose names include one that starts with "vcs-".  *)
(***************************************************************************)
Slots == {"0", "vcs-0"}
Kinds == {1, 2} \X Slots \X BOOLEAN
Streams ==
    UNION {{[j \in 1..n |-> SlotPkg(f[j][1], j, f[j][2], f[j][3])] : f \in [1..n -> Kinds]}
           : n \in 0..MaxPkgs}
ReducerModes == {"latest", "partial", "package", "category"}

ReducerInit ==
    /\ PipeIdle /\ RunnerIdle /\ CacheIdle /\ EqIdle /\ ProfileIdle /\ EclassIdle /\ HistoryIdle /\ OverlayIdle /\ UpdateIdle /\ SourceIdle /\ RemoveIdle /\ CopyIdle
    /\ g_src \in Streams
    /\ g_mode \in ReducerModes
    /\ g_it = LatestPkgsFilter(g_mode = "partial")
    /\ g_out = <<>> /\ g_done = FALSE

\* next() on the LatestPkgsFilter.
LatestNext ==
    /\ g_mode \in {"latest", "partial"} /\ ~g_done
    /\ \E r \in {LatestPkgsFilter_next(g_it, g_src)} :
         /\ g_it' = r.it
         /\ g_done' = r.stop
         /\ g_out' = IF r.stop THEN g_out ELSE Append(g_out, r.pkg)
    /\ UNCHANGED <<g_src, g_mode, offReducer>>

\* The chunks of _CombinedSource.itermatch over the stream.
Combine ==
    /\ g_mode \in {"package", "category"} /\ ~g_done
    /\ g_out' = CombinedLoop(g_mode, g_src, <<>>)
    /\ g_done' = TRUE
    /\ UNCHANGED <<g_src, g_mode, g_it, offReducer>>

ReducerNext == LatestNext \/ Combine

ReducerSpec == ReducerInit /\ [][ReducerNext]_vars

(***************************************************************************)
(* Properties of the reducers, checked under ReducerSpec.                  *)
(***************************************************************************)
SortedByIdentity(src) == \A j \in 1..(Len(src) - 1) : src[j][1] <= src[j + 1][1]
\* The packages of the stream no later package of the same identity and
\* the same slot key follows.
LastOfSlotKey(src) ==
    {src[j] : j \in {j \in DOMAIN src :
        \A m \in (j + 1)..Len(src) :
            ~(src[m][1] = src[j][1] /\ slot_key(src[m]) = slot_key(src[j]))}}

C17_LiveIndependent ==
    (g_mode = "latest" /\ g_done /\ SortedByIdentity(g_src))
    => \A j \in DOMAIN g_src :
          g_src[j] \notin Range(g_out)
          => \E m \in (j + 1)..Len(g_src) :
                /\ g_src[m][1] = g_src[j][1]
                /\ g_src[m][3] = g_src[j][3]
                /\ g_src[m][4] = g_src[j][4]

\* C18: the chunks of the grouping reducer are non-empty, concatenate to
\* the stream, hold packages of one key each, and two chunks in a row
\* differ in key, whether or not the stream is sorted.
C18_Grouping ==
    (g_mode \in {"package", "category"} /\ g_done)
    => /\ Flatten(g_out) = g_src
       /\ \A c \in DOMAIN g_out :
            /\ g_out[c] # <<>>
            /\ \A j \in DOMAIN g_out[c] :
                 chunkkey(g_mode, g_out[c][j]) = chunkkey(g_mode, g_out[c][1])
       /\ \A c \in 1..(Len(g_out) - 1) :
            chunkkey(g_mode, g_out[c][1]) # chunkkey(g_mode, g_out[c + 1][1])

\* Identities 1, 2, 1: the two packages of identity 1 are not adjacent
\* and end up in different chunks.
C18_Witness ==
    /\ g_mode = "package" /\ g_done /\ Len(g_src) = 3
    /\ g_src[1][1] = 1 /\ g_src[2][1] = 2 /\ g_src[3][1] = 1
    /\ Len(g_out) = 3

\* Whether the package at j is the last of its slot key in its run, the
\* stretch of adjacent packages of one identity it lies in.
LastInRun(src, j) ==
    \A m \in (j + 1)..Len(src) :
        (\A o \in j..m : src[o][1] = src[j][1]) => slot_key(src[m]) # slot_key(src[j])

\* C32: the partial reducer yields the packages of the stream one for
\* one and in order, the last package of a slot key in its run as it is
\* and every other package marked as filtered; when it is exhausted it
\* has yielded as many as the stream holds.
C32_PartialKeepsAll ==
    g_mode = "partial" =>
        /\ Len(g_out) <= Len(g_src)
        /\ g_done => Len(g_out) = Len(g_src)
        /\ \A j \in DOMAIN g_out :
              g_out[j] = IF LastInRun(g_src, j)
                         THEN g_src[j]
                         ELSE <<g_src[j][1], g_src[j][2], g_src[j][3], g_src[j][4], TRUE>>

\* Three versions of one package in one slot: the first two come out
\* marked, the third as it is.
C32_Witness ==
    /\ g_mode = "partial" /\ g_done
    /\ g_src = <<SlotPkg(1, 1, "0", FALSE), SlotPkg(1, 2, "0", FALSE),
                 SlotPkg(1, 3, "0", FALSE)>>
    /\ g_out[1][5] /\ g_out[2][5] /\ g_out[3] = g_src[3]

\* C37: what the non-partial reducer has yielded is a subsequence of the
\* stream: every package yielded is the stream's package at the position
\* it carries, and the positions go up along the output.
C37_OutputInInputOrder ==
    g_mode = "latest" =>
        /\ \A a \in DOMAIN g_out :
              g_out[a][2] \in DOMAIN g_src /\ g_out[a] = g_src[g_out[a][2]]
        /\ \A a \in DOMAIN g_out : \A b \in DOMAIN g_out :
              a < b => g_out[a][2] < g_out[b][2]
(***************************************************************************)
(* EqSpec: two runners over lists of up to MaxChecks of three checks, in   *)
(* any order and with repetitions, from either of two sources; the other   *)
(* object may also be of another class.                                    *)
(***************************************************************************)
EqChecks == {"k1", "k2", "k3"}
CheckLists == UNION {[1..n -> EqChecks] : n \in 0..MaxChecks}
EqSources == {"s1", "s2"}

EqInit ==
    /\ PipeIdle /\ RunnerIdle /\ CacheIdle /\ ReducerIdle /\ ProfileIdle /\ EclassIdle /\ HistoryIdle /\ OverlayIdle /\ UpdateIdle /\ SourceIdle /\ RemoveIdle /\ CopyIdle
    /\ q_self \in {CheckRunner(src, cs) : src \in EqSources, cs \in CheckLists}
    /\ q_other \in {[CheckRunner(src, cs) EXCEPT !.cls = c] :
                       src \in EqSources, cs \in CheckLists, c \in {"CheckRunner", "Other"}}
    /\ q_res = NoResult

\* self == other, self != other, hash(self), hash(other)
Compare ==
    /\ ~q_res.done
    /\ q_res' = [done |-> TRUE, eq |-> CheckRunner_eq(q_self, q_other),
                 ne |-> CheckRunner_ne(q_self, q_other),
                 hself |-> CheckRunner_hash(q_self),
                 hother |-> CheckRunner_hash(q_other)]
    /\ UNCHANGED <<q_self, q_other, offEq>>

EqNext == Compare

EqSpec == EqInit /\ [][EqNext]_vars

\* C19: two CheckRunners are equal exactly when the sets of their checks
\* are, whatever their sources and the order of the checks; equal runners
\* hash alike and != gives the opposite of ==.
C19_RunnerEquality ==
    (q_res.done /\ q_other.cls = "CheckRunner")
    => /\ q_res.eq <=> (\A c \in EqChecks :
                           (\E i \in DOMAIN q_self.checks : q_self.checks[i] = c)
                           <=> (\E j \in DOMAIN q_other.checks : q_other.checks[j] = c))
       /\ q_res.eq => q_res.hself = q_res.hother
       /\ q_res.ne = ~q_res.eq

\* Equal runners whose sources and whose orders of checks differ.
C19_Witness ==
    /\ q_res.done /\ q_res.eq /\ q_other.cls = "CheckRunner"
    /\ q_self.source # q_other.source
    /\ q_self.checks = <<"k1", "k2", "k3">> /\ q_other.checks = <<"k3", "k1", "k2">>
    /\ q_res.hself = q_res.hother

(***************************************************************************)
(* ProfileSpec: scans of a repo with two profiles.  Between two scans the  *)
(* files of a node are modified or a file is added to the shared node.     *)
(* Every scan covers both profiles; a profile whose files cannot be parsed *)
(* raises ProfileError each time its data is computed.                     *)
(***************************************************************************)
ProfileStart ==
    /\ p_fs \in [Nodes -> {Dir(mtime, FALSE) : mtime \in 1..MaxTime}]
    /\ p_disk \in {NoProfilesFile, ProfilesFile(ProfileCache.version - 1, NoEntries)}
    /\ p_broken \in {{}, {"p2"}}
    /\ p_scan = NoScan

ProfileInit ==
    /\ PipeIdle /\ RunnerIdle /\ CacheIdle /\ ReducerIdle /\ EqIdle /\ EclassIdle /\ HistoryIdle /\ OverlayIdle /\ UpdateIdle /\ SourceIdle /\ RemoveIdle /\ CopyIdle
    /\ ProfileStart

\* One update_cache call.
Scan ==
    \E force \in BOOLEAN, enabled \in BOOLEAN, fails \in BOOLEAN :
      \E r \in {update_cache(force, enabled, p_fs, p_disk, p_broken, fails)} :
        /\ p_disk' = r.disk
        /\ p_scan' = [any |-> TRUE, force |-> force, enabled |-> enabled,
                      before |-> r.before, files |-> r.files, outcome |-> r.outcome,
                      data |-> r.data, saved |-> r.saved,
                      raised |-> r.raised, old |-> p_disk,
                      again |-> p_scan.any /\ p_scan.enabled /\ ~p_scan.raised,
                      seen |-> p_scan.files]
        /\ UNCHANGED <<p_fs, p_broken>>
        /\ UNCHANGED offProfile

\* A file of the node is modified.
Touch ==
    \E node \in Nodes :
        /\ p_fs[node].mtime < MaxTime
        /\ p_fs' = [p_fs EXCEPT ![node].mtime = @ + 1]
        /\ UNCHANGED <<p_disk, p_broken, p_scan>>
        /\ UNCHANGED offProfile

\* A file that keeps an old modification time is added to the shared node.
AddFile ==
    /\ ~p_fs[SharedNode].second
    /\ p_fs' = [p_fs EXCEPT ![SharedNode].second = TRUE]
    /\ UNCHANGED <<p_disk, p_broken, p_scan>>
    /\ UNCHANGED offProfile

ProfileNext == Scan \/ Touch \/ AddFile

ProfileSpec == ProfileInit /\ [][ProfileNext]_vars

\* The scan the claim is about: caching enabled, force unset, returned.
CachingScan == p_scan.any /\ p_scan.enabled /\ ~p_scan.force /\ ~p_scan.raised
\* The entry the cache file now holds for the profile.
Cached(profile) == IF p_disk.exists THEN p_disk.entries[profile] ELSE NoEntry

EclassStart ==
    /\ e_fs \in [EclassNames -> {NoEclassFile, EclassFile(1, "ok")}]
    /\ e_disk \in {NoEclassCacheFile, EclassCacheFile(EclassCache.version - 1, NoDocs)}
    /\ e_scan = NoEclassScan

EclassInit ==
    /\ PipeIdle /\ RunnerIdle /\ CacheIdle /\ ReducerIdle /\ EqIdle /\ ProfileIdle /\ HistoryIdle /\ OverlayIdle /\ UpdateIdle /\ SourceIdle /\ RemoveIdle /\ CopyIdle
    /\ EclassStart

\* One update_cache call.
EclassScan ==
    \E force \in BOOLEAN, enabled \in BOOLEAN :
      \E r \in {eclass_update_cache(force, enabled, e_fs, e_disk)} :
        /\ e_disk' = r.disk
        /\ e_scan' = [any |-> TRUE, force |-> force, enabled |-> enabled,
                      fs |-> e_fs, old |-> e_disk, before |-> r.before,
                      parsed |-> r.parsed, after |-> r.after, saved |-> r.saved,
                      raised |-> r.raised]
        /\ UNCHANGED e_fs
        /\ UNCHANGED offEclass

\* An eclass is modified.
EclassTouch ==
    \E name \in EclassNames : \E kind \in ParseKinds(name) :
        /\ e_fs[name].exists /\ e_fs[name].mtime < MaxTime
        /\ e_fs' = [e_fs EXCEPT ![name] = EclassFile(@.mtime + 1, kind)]
        /\ UNCHANGED <<e_disk, e_scan>>
        /\ UNCHANGED offEclass

\* An eclass is removed from the directory.
EclassRemove ==
    \E name \in EclassNames :
        /\ e_fs[name].exists
        /\ e_fs' = [e_fs EXCEPT ![name] = NoEclassFile]
        /\ UNCHANGED <<e_disk, e_scan>>
        /\ UNCHANGED offEclass

\* An eclass is added to the directory.
EclassCreate ==
    \E name \in EclassNames, mtime \in 1..MaxTime : \E kind \in ParseKinds(name) :
        /\ ~e_fs[name].exists
        /\ e_fs' = [e_fs EXCEPT ![name] = EclassFile(mtime, kind)]
        /\ UNCHANGED <<e_disk, e_scan>>
        /\ UNCHANGED offEclass

EclassNext == EclassScan \/ EclassTouch \/ EclassRemove \/ EclassCreate

EclassSpec == EclassInit /\ [][EclassNext]_vars

\* The scan the claim is about: caching enabled, force unset, returned.
EclassCachingScan == e_scan.any /\ e_scan.enabled /\ ~e_scan.force /\ ~e_scan.raised

\* C21: an update_cache call with force unset keeps, without parsing, every
\* cached entry whose file exists with the cached modification time; drops
\* exactly the cached entries whose file is gone; parses exactly the files
\* that have no entry or another modification time than their entry; and
\* saves the cache file exactly when an entry was added, replaced or
\* dropped, the file then holding the entries of the call.
C21_EclassIncremental ==
    EclassCachingScan =>
        /\ \A name \in EclassNames :
            /\ ( /\ e_scan.before[name].present /\ e_scan.fs[name].exists
                 /\ e_scan.fs[name].mtime = e_scan.before[name].mtime )
                 => /\ name \notin e_scan.parsed
                    /\ e_scan.after[name] = e_scan.before[name]
            /\ e_scan.before[name].present
                 => (~e_scan.after[name].present <=> ~e_scan.fs[name].exists)
            /\ name \in e_scan.parsed
                 <=> /\ e_scan.fs[name].exists
                     /\ \/ ~e_scan.before[name].present
                        \/ e_scan.before[name].mtime # e_scan.fs[name].mtime
        /\ e_scan.saved <=> e_scan.after # e_scan.before
        /\ e_scan.saved => e_disk = EclassCacheFile(EclassCache.version, e_scan.after)
        /\ ~e_scan.saved => e_disk \in {e_scan.old, NoEclassCacheFile}

\* A scan that keeps the entry of a, drops that of b whose file is gone,
\* and saves; and one that parses a file that came back older than its
\* entry.
C21_Witness ==
    /\ EclassCachingScan /\ e_scan.saved /\ e_scan.parsed = {}
    /\ e_scan.before["a"].present /\ e_scan.before["b"].present
    /\ e_scan.after["a"] = e_scan.before["a"] /\ ~e_scan.after["b"].present

\* C40: after an update_cache that returned, every entry of the eclass
\* mapping, and of the cache file when the call wrote it, is of a file
\* that exists and carries the modification time the file has.
C40_EntriesCurrent ==
    (e_scan.any /\ e_scan.enabled /\ ~e_scan.raised) =>
        /\ \A name \in EclassNames :
              e_scan.after[name].present
                => /\ e_scan.fs[name].exists
                   /\ e_scan.after[name].mtime = e_scan.fs[name].mtime
        /\ e_scan.saved =>
              \A name \in EclassNames :
                  e_disk.entries[name].present
                    => /\ e_scan.fs[name].exists
                       /\ e_disk.entries[name].mtime = e_scan.fs[name].mtime

(***************************************************************************)
(* HistorySpec: scans of a repo between which origin/HEAD advances.  The   *)
(* cache path starts empty, with a cache of the earlier version or with a  *)
(* file that is no cache.                                                  *)
(***************************************************************************)
HistoryStart ==
    /\ h_head \in 0..1
    /\ h_quiet \in {{}, {1}}
    /\ h_file \in {NoFile} \cup {File(b) : b \in Foreign}
                  \cup {File(pickle_dump(DictCache(<<1, 1>>, GitCacheData.version - 1)))}
    /\ h_scan = NoHistoryScan

HistoryInit ==
    /\ PipeIdle /\ RunnerIdle /\ CacheIdle /\ ReducerIdle /\ EqIdle /\ ProfileIdle /\ EclassIdle /\ OverlayIdle /\ UpdateIdle /\ SourceIdle /\ RemoveIdle /\ CopyIdle
    /\ HistoryStart

\* One update_cache call.
HistoryScan ==
    \E force \in BOOLEAN, enabled \in BOOLEAN, git_log_fails \in BOOLEAN :
      \E r \in {git_update_cache(force, enabled, h_head, h_quiet, h_file, git_log_fails)} :
        /\ h_file' = r.file
        /\ h_scan' = [any |-> TRUE, force |-> force, enabled |-> enabled,
                      head |-> h_head, old |-> h_file, loaded |-> r.loaded,
                      walk |-> r.walk, cache |-> r.cache, saved |-> r.saved,
                      raised |-> r.raised]
        /\ UNCHANGED <<h_head, h_quiet>>
        /\ UNCHANGED offHistory

\* git fetch: origin/HEAD moves to a later revision.
Fetch ==
    \E head \in 1..MaxRevs :
        /\ head > h_head
        /\ h_head' = head
        /\ UNCHANGED <<h_quiet, h_file, h_scan>>
        /\ UNCHANGED offHistory

HistoryNext == HistoryScan \/ Fetch

HistorySpec == HistoryInit /\ [][HistoryNext]_vars

\* The prior cache update_cache can use: a file that unpickles to a cache
\* of the registered version, unless force is set.
UsableCache(file, force) ==
    /\ ~force /\ file.exists
    /\ pickle_load(file.bytes).exc = ""
    /\ pickle_load(file.bytes).value.t = "cache"
    /\ pickle_load(file.bytes).value.version = GitCacheData.version
StoredCommit(file) == git_commit(pickle_load(file.bytes).value)
\* The changes a walk records: of the revisions that change a package,
\* those no later revision of the walk repeats.
Changes(revs) ==
    SelectSeq(revs, LAMBDA rev :
        /\ rev \notin h_quiet
        /\ \A later \in Range(revs) :
              (later > rev /\ later \notin h_quiet) => change_key(later) # change_key(rev))
\* The revisions after from up to head.
Revisions(from, head) == {rev \in 1..MaxRevs : from < rev /\ rev <= head}

\* C22: in an update_cache call with caching enabled on a repo with head
\* h: with a usable prior cache of revision c # h the walk covers exactly
\* the revisions after c up to h, the data of the call is the loaded data
\* followed by the changes of those revisions, and the cache of the call
\* records h; with no usable prior cache (absent, other version, corrupt,
\* force) the walk covers every revision up to h; with c = h there is no
\* walk and nothing is saved.
C22_HistoryWalk ==
    (h_scan.any /\ h_scan.enabled /\ h_scan.head # 0) =>
        IF UsableCache(h_scan.old, h_scan.force)
        THEN IF StoredCommit(h_scan.old) # h_scan.head
             THEN /\ h_scan.walk.kind = "incremental"
                  /\ Range(h_scan.walk.revs) = Revisions(StoredCommit(h_scan.old), h_scan.head)
                  /\ h_scan.raised = NoError
                       => /\ git_commit(h_scan.cache) = h_scan.head
                          /\ git_data(h_scan.cache)
                               = git_data(h_scan.loaded)
                                 \o Changes(h_scan.walk.revs)
                          /\ h_scan.saved => h_file = File(pickle_dump(h_scan.cache))
             ELSE /\ h_scan.walk = NoWalk /\ ~h_scan.saved /\ h_file = h_scan.old
        ELSE /\ h_scan.walk.kind = "full"
             /\ Range(h_scan.walk.revs) = Revisions(0, h_scan.head)

\* The data a single walk of the whole history up to head records.
FullWalk(head) == Changes(commit_range(0, head))

\* C38: an update that extends a cache made by a full walk up to an
\* earlier head ends with the data a single full walk up to the new head
\* records, with no record in it twice.
C38_IncrementalIsFull ==
    (/\ h_scan.any /\ h_scan.walk.kind = "incremental" /\ h_scan.raised = NoError
     /\ git_data(h_scan.loaded) = FullWalk(git_commit(h_scan.loaded)))
    => /\ git_data(h_scan.cache) = FullWalk(h_scan.head)
       /\ \A a \in DOMAIN git_data(h_scan.cache) : \A b \in DOMAIN git_data(h_scan.cache) :
             a # b => git_data(h_scan.cache)[a] # git_data(h_scan.cache)[b]

\* C39: an update_cache without force that follows an update_cache of the
\* same head that did not raise, caching enabled in both, walks nothing
\* and writes nothing.
C39_RepeatIsNoop ==
    [][(/\ h_scan.any /\ h_scan.enabled /\ h_scan.raised = NoError
        /\ h_scan.head = h_head /\ h_head' = h_head /\ h_head # 0
        /\ h_scan'.any /\ h_scan'.enabled /\ ~h_scan'.force)
       => (h_scan'.walk = NoWalk /\ ~h_scan'.saved /\ h_file' = h_file)]_vars

(***************************************************************************)
(* OverlaySpec: checks add elements through the holders of two profiles,   *)
(* in any order; global_insoluble holds nothing or one element.            *)
(***************************************************************************)
OverlayInit ==
    /\ PipeIdle /\ RunnerIdle /\ CacheIdle /\ ReducerIdle /\ EqIdle /\ ProfileIdle /\ EclassIdle /\ HistoryIdle /\ UpdateIdle /\ SourceIdle /\ RemoveIdle /\ CopyIdle
    /\ \E known \in {{}, {"x"}} :
         o_set = [obj \in Objects |-> IF obj = global_insoluble THEN known ELSE {}]
    /\ o_added = [holder \in Holders |-> {}]
    /\ o_last = NoAdd /\ o_adds = 0

\* profile.cache.add(key) or profile.insoluble.add(key)
OverlayAdd ==
    \E holder \in Holders, key \in Elems :
        /\ o_adds < MaxAdds
        /\ o_set' = ProtectedSet_add(o_set, held(holder), key)
        /\ o_added' = [o_added EXCEPT ![holder] = @ \cup {key}]
        /\ o_last' = [holder |-> holder, key |-> key,
                      seen |-> [other \in Holders |-> contains(o_set, held(other), key)],
                      base |-> IF orig(held(holder)) = NoObject THEN {}
                               ELSE Contents(o_set, orig(held(holder)))]
        /\ o_adds' = o_adds + 1
        /\ UNCHANGED offOverlay

OverlayNext == OverlayAdd

OverlaySpec == OverlayInit /\ [][OverlayNext]_vars

\* C23: an add through a holder that is an overlay leaves the contents of
\* its base (global_insoluble, stable_cache or the wrapped overlay) as they
\* were; and a read through an overlay finds an element exactly when the
\* base has it or it was added through that overlay.
C23_OverlayBaseUntouched ==
    /\ (o_adds > 0 /\ orig(held(o_last.holder)) # NoObject)
         => Contents(o_set, orig(held(o_last.holder))) = o_last.base
    /\ \A holder \in Holders :
         orig(held(holder)) # NoObject
           => \A key \in Elems :
                contains(o_set, held(holder), key)
                  <=> \/ contains(o_set, orig(held(holder)), key)
                      \/ key \in o_added[holder]

\* An element was added through the stable insoluble view of profile 1,
\* the overlay over the overlay unstable_insoluble, and is read through it.
C23_Witness ==
    /\ o_last.holder = Holder(1, "stable", "insoluble") /\ o_last.key = "y"
    /\ ~o_last.seen[o_last.holder]
    /\ contains(o_set, held(o_last.holder), "y")
    /\ ~contains(o_set, orig(held(o_last.holder)), "y")

\* The holders documented to read what another one adds: the stable
\* insoluble view reads the unstable one of its profile, the unstable cache
\* view reads the stable cache of its profile.
ReadsThrough(other, holder) ==
    /\ other[1] = holder[1] /\ other[3] = holder[3]
    /\ \/ other[3] = "insoluble" /\ other[2] = "stable" /\ holder[2] = "unstable"
       \/ other[3] = "cache" /\ other[2] = "unstable" /\ holder[2] = "stable"

\* C24 as stated: an element added through one holder is not observable
\* by a read through any other holder.
C24_HoldersIsolated ==
    o_adds > 0 =>
        \A other \in Holders \ {o_last.holder} :
            contains(o_set, held(other), o_last.key) => o_last.seen[other]

\* C24, amended: an element added through one holder becomes observable
\* through another holder only when that one is layered over the first
\* (the stable insoluble view over the unstable one of the same profile,
\* the unstable cache view over the stable cache of the same profile), and
\* then it is observable; it never becomes observable through the set
\* underneath, through the other attribute, or through a holder of another
\* profile.
C24_HoldersLayered ==
    o_adds > 0 =>
        \A other \in Holders \ {o_last.holder} :
            /\ (contains(o_set, held(other), o_last.key) /\ ~o_last.seen[other])
                 => ReadsThrough(other, o_last.holder)
            /\ ReadsThrough(other, o_last.holder)
                 => contains(o_set, held(other), o_last.key)

\* An element added through the unstable insoluble view of profile 1 is
\* read through the stable view of that profile and through no view of
\* profile 2.
C24_Witness ==
    /\ o_last.holder = Holder(1, "unstable", "insoluble") /\ o_last.key = "y"
    /\ ~o_last.seen[Holder(1, "stable", "insoluble")]
    /\ contains(o_set, held(Holder(1, "stable", "insoluble")), "y")
    /\ ~contains(o_set, held(Holder(2, "stable", "insoluble")), "y")
    /\ ~contains(o_set, held(Holder(2, "unstable", "insoluble")), "y")

(***************************************************************************)
(* SourceSpec: itermatch(restrict) of one source of each kind over a       *)
(* collection of packages (for the eclass source, of eclasses: <<name,     *)
(* 0>>, matched by name).  What a source yields is logged as a sequence of *)
(* entities, every entity a sequence of packages: one package for the      *)
(* sources that yield single entities, a chunk for the combined sources.   *)
(***************************************************************************)
Singles(pkgs) == [j \in DOMAIN pkgs |-> <<pkgs[j]>>]

\* Source.itermatch: yield from self.source.
Source_itermatch(source, restrict) == source

\* EmptySource: source=().
EmptySource_itermatch(restrict) == Source_itermatch(<<>>, restrict)

\* EclassRepoSource.itermatch: the eclasses whose name the restriction
\* matches.
EclassRepoSource_itermatch(eclasses, restrict) ==
    SelectSeq(eclasses, LAMBDA e : Matches(restrict, e))

IterCall(kind, source, restrict, out) ==
    [kind |-> kind, source |-> source, restrict |-> restrict, out |-> out]

SourceInit ==
    /\ PipeIdle /\ RunnerIdle /\ CacheIdle /\ ReducerIdle /\ EqIdle /\ ProfileIdle /\ EclassIdle /\ HistoryIdle /\ OverlayIdle /\ UpdateIdle /\ RemoveIdle /\ CopyIdle
    /\ s_call = NoIterCall

BaseIter ==
    /\ \E source \in Repos, restrict \in Restrictions :
           s_call' = IterCall("Source", source, restrict,
                              Singles(Source_itermatch(source, restrict)))
    /\ UNCHANGED offSource

EmptyIter ==
    /\ \E restrict \in Restrictions :
           s_call' = IterCall("EmptySource", <<>>, restrict,
                              Singles(EmptySource_itermatch(restrict)))
    /\ UNCHANGED offSource

RepoIter ==
    /\ \E source \in Repos, restrict \in Restrictions :
           s_call' = IterCall("RepoSource", source, restrict,
                              Singles(RepoSource_itermatch(source, restrict)))
    /\ UNCHANGED offSource

EclassIter ==
    /\ \E m \in 0..MaxIdents, restrict \in {r \in Restrictions : r.t # "cpv"} :
           s_call' = IterCall("EclassRepoSource", [i \in 1..m |-> <<i, 0>>], restrict,
                              Singles(EclassRepoSource_itermatch(
                                  [i \in 1..m |-> <<i, 0>>], restrict)))
    /\ UNCHANGED offSource

CombinedIter ==
    /\ \E scope \in {"package", "category"}, source \in Repos, restrict \in Restrictions :
           s_call' = IterCall(scope, source, restrict,
                              CombinedSource_itermatch(scope, source, restrict))
    /\ UNCHANGED offSource

SourceNext == BaseIter \/ EmptyIter \/ RepoIter \/ EclassIter \/ CombinedIter

SourceSpec == SourceInit /\ [][SourceNext]_vars

\* C26: whatever the kind of the source, every entity itermatch(restrict)
\* yielded satisfies the restriction, every member of it where the entity
\* is a list of packages.
C26_OnlyMatching ==
    \A j \in DOMAIN s_call.out : \A k \in DOMAIN s_call.out[j] :
        Matches(s_call.restrict, s_call.out[j][k])

(***************************************************************************)
(* UpdateSpec: one of the three cached addons is run over its repo, as in  *)
(* ProfileSpec, EclassSpec and HistorySpec; u_cache says which.            *)
(***************************************************************************)
UpdateInit ==
    /\ PipeIdle /\ RunnerIdle /\ CacheIdle /\ ReducerIdle /\ EqIdle /\ OverlayIdle /\ SourceIdle /\ RemoveIdle /\ CopyIdle
    /\ \/ u_cache = ProfileCache.type /\ ProfileStart /\ EclassIdle /\ HistoryIdle
       \/ u_cache = EclassCache.type /\ EclassStart /\ ProfileIdle /\ HistoryIdle
       \/ u_cache = GitCacheData.type /\ HistoryStart /\ ProfileIdle /\ EclassIdle

UpdateNext ==
    \/ u_cache = ProfileCache.type /\ ProfileNext
    \/ u_cache = EclassCache.type /\ EclassNext
    \/ u_cache = GitCacheData.type /\ HistoryNext

UpdateSpec == UpdateInit /\ [][UpdateNext]_vars

\* C25: for the profile, eclass and history caches alike, an update_cache
\* call that raises has not saved: the cache file is the one found (or is
\* gone, where the load removed a stale or corrupt one); and a call that
\* saved has returned, the file holding the payload of the completed
\* computation: an entry for every profile that was computed, the entries
\* of the whole eclass directory, the history walked up to the head.
C25_SaveAfterComputation ==
    /\ p_scan.any =>
        /\ p_scan.raised => ~p_scan.saved /\ p_disk \in {p_scan.old, NoProfilesFile}
        /\ p_scan.saved =>
            /\ ~p_scan.raised /\ p_disk.exists /\ p_disk.version = ProfileCache.version
            /\ \A profile \in Profiles :
                 p_scan.outcome[profile] \in {"cached", "computed"}
                   => p_disk.entries[profile] = Entry(p_scan.files[profile], p_scan.data[profile])
    /\ e_scan.any =>
        /\ e_scan.raised => ~e_scan.saved /\ e_disk \in {e_scan.old, NoEclassCacheFile}
        /\ e_scan.saved =>
            /\ ~e_scan.raised /\ e_disk = EclassCacheFile(EclassCache.version, e_scan.after)
            /\ \A name \in EclassNames :
                 e_scan.fs[name].exists /\ e_scan.fs[name].kind = "ok"
                   => e_scan.after[name] = EclassDoc(e_scan.fs[name].mtime)
    /\ h_scan.any =>
        /\ h_scan.raised # NoError => ~h_scan.saved /\ h_file \in {h_scan.old, NoFile}
        /\ h_scan.saved =>
            /\ h_scan.raised = NoError /\ h_file = File(pickle_dump(h_scan.cache))
            /\ git_commit(h_scan.cache) = h_scan.head
            /\ git_data(h_scan.cache)
                 = git_data(h_scan.loaded)
                   \o Changes(h_scan.walk.revs)

\* The history walk of an incremental update fails: UserException, and the
\* cache file is the one saved by the scan before.
C25_Witness ==
    /\ u_cache = GitCacheData.type
    /\ h_scan.any /\ h_scan.raised = UserException(GitCacheData)
    /\ h_scan.walk.kind = "incremental"
    /\ h_file = h_scan.old /\ h_file.exists

\* C36: every value on the results channel is the terminal marker or a
\* batch with at least one finding in it.
C36_NoEmptyBatch ==
    \A k \in DOMAIN results_q :
        results_q[k] = EndMarker \/ results_q[k].results # <<>>

(***************************************************************************)
(* RemoveSpec: one call of remove_caches() on a cache directory, for every *)
(* content of the directory and every setting of the options.              *)
(***************************************************************************)
RemoveInit ==
    /\ PipeIdle /\ RunnerIdle /\ CacheIdle /\ ReducerIdle /\ EqIdle /\ ProfileIdle /\ EclassIdle /\ HistoryIdle /\ OverlayIdle /\ UpdateIdle /\ SourceIdle /\ CopyIdle
    /\ rm_tree \in Trees /\ rm_was = rm_tree
    /\ rm_opts \in RemoveOptions
    /\ rm_done = FALSE

RemoveCaches ==
    /\ ~rm_done
    /\ rm_tree' = remove_caches(rm_tree, rm_opts)
    /\ rm_done' = TRUE
    /\ UNCHANGED <<rm_opts, rm_was, offRemove>>

RemoveNext == RemoveCaches

RemoveSpec == RemoveInit /\ [][RemoveNext]_vars

\* The cache files of the selected types that were on disk.
SelectedFiles ==
    {f \in rm_was.files : f[1] \in CacheRepos /\ \E c \in caches : c.type \in rm_opts.cache /\ c.file = f[2]}

CopyInit ==
    /\ PipeIdle /\ RunnerIdle /\ CacheIdle /\ ReducerIdle /\ EqIdle /\ ProfileIdle /\ EclassIdle /\ HistoryIdle /\ OverlayIdle /\ UpdateIdle /\ SourceIdle /\ RemoveIdle
    /\ k_scan \in CopyScans
    /\ k_pc = "start" /\ k_main = NewCopy /\ k_workers = <<>> /\ k_todo = <<>>
    /\ k_tasks = <<>> /\ k_q = <<>>

\* Lines 63-67: start() on the scheduler's runners.
KStart ==
    /\ k_pc = "start"
    /\ \E r \in {start_copy(k_scan, k_main, 1, <<>>)} :
         k_main' = r.copy /\ k_q' = k_q \o r.out
    /\ k_pc' = "dispatch"
    /\ UNCHANGED <<k_scan, k_workers, k_todo, k_tasks, offCopy>>

\* Lines 69-85: the serial strategies run every runner in the scheduler.
KSerial ==
    /\ k_pc = "dispatch" /\ k_scan.strategy = "serial"
    /\ \E r \in {run_copies(k_scan, k_main, CopyRunners, AlwaysTrue, 1, <<>>)} :
         k_main' = r.copy /\ k_q' = k_q \o r.out
    /\ k_pc' = "finish"
    /\ UNCHANGED <<k_scan, k_workers, k_todo, k_tasks, offCopy>>

\* Lines 116-121: the producer enumerates the identities and the pool is
\* forked from the scheduler.
KPool ==
    /\ k_pc = "dispatch" /\ k_scan.strategy = "pool"
    /\ k_workers' = [w \in 1..MaxJobs |-> k_main]
    /\ k_todo' = FilteredSource_itermatch("cp", k_scan.repo, AlwaysTrue)
    /\ k_pc' = "pool"
    /\ UNCHANGED <<k_scan, k_main, k_tasks, k_q, offCopy>>

\* _run_checks in worker w: the next identity is run on the worker's copy.
KWorker(w) ==
    /\ k_pc = "pool" /\ k_todo # <<>>
    /\ \E r \in {run_copies(k_scan, k_workers[w], CopyRunners, Head(k_todo), 1, <<>>)} :
         k_workers' = [k_workers EXCEPT ![w] = r.copy] /\ k_q' = k_q \o r.out
    /\ k_todo' = Tail(k_todo)
    /\ UNCHANGED <<k_scan, k_pc, k_main, k_tasks, offCopy>>

\* Lines 122-123: p.join(), pool.join().
KJoin ==
    /\ k_pc = "pool" /\ k_todo = <<>>
    /\ k_pc' = "finish"
    /\ UNCHANGED <<k_scan, k_main, k_workers, k_todo, k_tasks, k_q, offCopy>>

\* Lines 94-101: the tasks are submitted.
KSubmit ==
    /\ k_pc = "dispatch" /\ k_scan.strategy = "executor"
    /\ k_tasks' = copy_tasks(k_scan)
    /\ k_pc' = "tasks"
    /\ UNCHANGED <<k_scan, k_main, k_workers, k_todo, k_q, offCopy>>

\* A task runs on its copy of the scheduler's runners; the copy goes with
\* the task.
KTask(t) ==
    /\ k_pc = "tasks" /\ ~k_tasks[t].done
    /\ \E r \in {run_copy(k_scan, k_main, CopyRunners[k_tasks[t].runner], k_tasks[t].restrict)} :
         k_tasks' = [k_tasks EXCEPT ![t].done = TRUE, ![t].out = r.out]
    /\ UNCHANGED <<k_scan, k_pc, k_main, k_workers, k_todo, k_q, offCopy>>

\* Lines 102-105: the results of the tasks are put.
KCollect ==
    /\ k_pc = "tasks" /\ \A t \in DOMAIN k_tasks : k_tasks[t].done
    /\ k_q' = k_q \o Flatten([t \in DOMAIN k_tasks |-> k_tasks[t].out])
    /\ k_pc' = "finish"
    /\ UNCHANGED <<k_scan, k_main, k_workers, k_todo, k_tasks, offCopy>>

\* Lines 133-137: finish() on the scheduler's runners.
KFinish ==
    /\ k_pc = "finish"
    /\ \E r \in {finish_copy(k_scan, k_main, 1, <<>>)} :
         k_main' = r.copy /\ k_q' = k_q \o r.out
    /\ k_pc' = "done"
    /\ UNCHANGED <<k_scan, k_workers, k_todo, k_tasks, offCopy>>

CopyNext ==
    \/ KStart \/ KSerial \/ KPool \/ KJoin \/ KSubmit \/ KCollect \/ KFinish
    \/ \E w \in 1..MaxJobs : KWorker(w)
    \/ \E t \in DOMAIN k_tasks : KTask(t)

CopySpec == CopyInit /\ [][CopyNext]_vars

\* What a finding says: the check, phase and entity of a report; the
\* package and the message of a MetadataError.
Said(f) ==
    IF f.kind = "MetadataError"
    THEN [kind |-> f.kind, check |-> "", phase |-> "", key |-> <<>>, pkg |-> f.pkg, msg |-> f.msg]
    ELSE [kind |-> f.kind, check |-> f.check, phase |-> f.phase, key |-> f.key, pkg |-> f.pkg, msg |-> f.msg]

\* The findings of the scan run by the serial strategy.
SerialFindings ==
    LET started == start_copy(k_scan, NewCopy, 1, <<>>)
        run == run_copies(k_scan, started.copy, CopyRunners, AlwaysTrue, 1, <<>>)
        finished == finish_copy(k_scan, run.copy, 1, <<>>)
    IN  started.out \o run.out \o finished.out

\* C34: when the scan is over the findings on the results channel say
\* what the findings of the serial strategy say, whichever strategy ran
\* the scan.
C34_SameFindings ==
    k_pc = "done" => {Said(f) : f \in Range(k_q)} = {Said(f) : f \in Range(SerialFindings)}

\* C35: in a scan run by the pool or by the executor no two findings on
\* the results channel are MetadataErrors of the same (pkg, error).
C35_OneFindingPerKey ==
    k_scan.strategy \in {"pool", "executor"} =>
        \A a \in DOMAIN k_q : \A b \in DOMAIN k_q :
            (/\ a # b
             /\ k_q[a].kind = "MetadataError" /\ k_q[b].kind = "MetadataError")
            => <<k_q[a].pkg, k_q[a].error>> # <<k_q[b].pkg, k_q[b].error>>
====
